---------------------------- MODULE Spec2Model ----------------------------
(***************************************************************************)
(* Model of the nike-export-app core:                                      *)
(*   - core/pdf_processor_nike.py / core/pdf_processor.py                  *)
(*       dest_from_marks, parse_pl, process_packing_list,                  *)
(*       get_invoice_data_dict                                             *)
(*   - core/template_manager_nike.py / core/template_manager.py            *)
(*       scan_template_placeholders, replace_placeholders_in_sheet,        *)
(*       replace_placeholders_in_sheet_preserve_format,                    *)
(*       create_filled_template, fill_template                             *)
(*                                                                         *)
(* Representation of text.                                                 *)
(*   Extracted document text (page text, marks) is a sequence of words,    *)
(*   i.e. the text split at whitespace; "" is <<>>.  The regular           *)
(*   expressions of the extractor are modelled on that word sequence.      *)
(*   Spreadsheet cell text is a sequence of one-character strings, so      *)
(*   that the placeholder pattern is modelled character by character.      *)
(***************************************************************************)
EXTENDS Integers, Sequences, FiniteSets, TLC

VARIABLES
    pc,           \* position of the operation under way
    \* ---- dest_from_marks
    marks,        \* argument of dest_from_marks
    dest,         \* its return value
    \* ---- parse_pl and its callers
    pdf,          \* the source document: a sequence of pages
    pageNo,       \* number of pages already processed by the page loop
    row,          \* parse_pl: the record being built
    refpo_hits,   \* parse_pl: Reference-PO candidates, in discovery order
    po_hits,      \* parse_pl: generic-PO candidates, in discovery order
    data,         \* the record handed out to the caller
    logged,       \* an except branch ran and logged an error
    \* ---- template managers
    mgr,          \* class of the template manager object
    template,     \* the template workbook file
    data_dict,    \* the data map given to the fill
    op,           \* the fill operation called and its sheet_name argument
    wb,           \* the workbook object loaded by the fill (mutated in place)
    output,       \* the output file written by the fill
    ret,          \* what the fill returned or raised
    placeholders, \* scan of the template before the fill
    remaining,    \* scan of the output file after the fill
    handle,  \* the workbook handle the operation opened: "none", "open" or "closed"
    \* ---- row-append workflow on the sheet "Data"
    sheet,        \* the worksheet: its rows 1..max_row, each a tuple of cells
    start_row,    \* first data row; the header row is the one before it
    invoice,      \* the invoice identifier to find or append
    pl_row_dict,  \* the record whose fields fill_excel_row writes
    asi_desc,     \* the description written to the description column
    dest_override, \* the destination given in place of the record's DEST
    header,       \* build_header_map_and_get_cols: normalized key -> column
    cols,         \* the header map: field key -> column index
    target,       \* the row returned by find_or_append_row / fill_excel_row
    \* ---- text helpers of the PDF processors
    words,        \* group_lines: the tokens of a page
    lines,        \* group_lines: the lines returned
    candidate,    \* _clean_desc: the candidate description
    cleaned,      \* _clean_desc: the canonical description returned
    \* ---- description resolver
    captures,  \* extract_asi_desc_from_pdf: the descriptions matched, in discovery order
    descs,  \* the set of cleaned descriptions
    desc,  \* the description returned
    desc_rerun, \* the description returned by a second run on the same document
    \* ---- region locator
    page_words,  \* extract_marks_by_words: the words of the page, each with text, top and x0
    page_width,  \* the width of the page
    right_texts,  \* the texts of the right-column lines
    r_coo_idx,  \* index of the anchor line among them, from 0; NoIndex for None
    r_start,  \* first line of the window, from 0
    r_end,  \* last line of the window, from 0
    picked,  \* the normalized text of the window
    region, \* the text returned
    \* ---- repeated find_or_append_row
    given,  \* calls of find_or_append_row in a row: the row first returned for each normalized identifier
    calls, \* the number of calls made
    \* ---- output paths of fill_template
    now,  \* fill_template invocations side by side: the clock, in ticks
    tpl_name,  \* the name of the template file the invocations fill
    tpl_sheet,  \* the sheet they fill
    call_pc,  \* the position of each invocation
    call_path,  \* the output path each invocation has built
    call_data,  \* the value each invocation fills in
    files,  \* the output folder: the content of the file at each path
    saves  \* the saves made, in order: who saved to which path

vars == <<pc, marks, dest, pdf, pageNo, row, refpo_hits, po_hits, data,
          logged, mgr, template, data_dict, op, wb, output, ret,
          placeholders, remaining, handle, sheet, start_row, invoice,
          pl_row_dict, asi_desc, dest_override, header, cols, target,
          words, lines, candidate, cleaned, captures, descs, desc,
          desc_rerun, page_words, page_width, right_texts, r_coo_idx,
          r_start, r_end, picked, region, given, calls, now, tpl_name,
          tpl_sheet, call_pc, call_path, call_data, files, saves>>

destVars  == <<marks, dest>>
parseVars == <<pdf, pageNo, row, refpo_hits, po_hits, data>>
fillVars  == <<mgr, template, data_dict, op, wb, output, ret, placeholders,
               remaining, handle>>
gridVars  == <<sheet, start_row, invoice, pl_row_dict, asi_desc,
               dest_override, header, cols, target>>
textVars  == <<words, lines, candidate, cleaned>>
descVars == <<captures, descs, desc, desc_rerun>>
regionVars == <<page_words, page_width, right_texts, r_coo_idx, r_start, r_end, picked, region>>
appendVars == <<given, calls>>
pathVars == <<now, tpl_name, tpl_sheet, call_pc, call_path, call_data, files, saves>>

\* what the actions of one component leave alone
notDestVars  == <<parseVars, fillVars, gridVars, textVars, descVars, regionVars,
                 appendVars,
                 pathVars>>
notParseVars == <<destVars, fillVars, gridVars, textVars, descVars, regionVars,
                 appendVars,
                 pathVars>>
notFillVars  == <<destVars, parseVars, gridVars, textVars, descVars, regionVars,
                 appendVars,
                 pathVars>>
notGridVars  == <<destVars, parseVars, fillVars, textVars, descVars, regionVars,
                 appendVars,
                 pathVars>>
notTextVars  == <<destVars, parseVars, fillVars, gridVars, descVars, regionVars,
                 appendVars,
                 pathVars>>
notGridFillVars == <<destVars, parseVars, textVars, descVars, regionVars,
                 appendVars,
                 pathVars>>
notDescVars == <<destVars, parseVars, fillVars, gridVars, textVars, regionVars,
                 appendVars,
                 pathVars>>
notRegionVars == <<destVars, parseVars, fillVars, gridVars, textVars, descVars,
                 appendVars,
                 pathVars>>
notAppendVars == <<destVars, parseVars, fillVars, gridVars, textVars, descVars, regionVars,
                 pathVars>>
notPathVars == <<destVars, parseVars, fillVars, gridVars, textVars, descVars, regionVars, appendVars>>

None == "None"

(***************************************************************************)
(* Generic helpers on sequences.                                           *)
(***************************************************************************)
RECURSIVE Flatten(_)
Flatten(ss) == IF ss = <<>> THEN <<>> ELSE Head(ss) \o Flatten(Tail(ss))

SeqsUpTo(S, n) == UNION {[1..k -> S] : k \in 0..n}

\* the phrase `lab` stands in `txt` at position i
PhraseAt(txt, i, lab) ==
    /\ i >= 1
    /\ i + Len(lab) - 1 <= Len(txt)
    /\ \A k \in 1..Len(lab) : txt[i + k - 1] = lab[k]

Min(S) == CHOOSE x \in S : \A y \in S : x <= y

(***************************************************************************)
(* Destination Resolver: dest_from_marks (pdf_processor_nike.py 131-169,   *)
(* the same code in pdf_processor.py 127-165).                             *)
(***************************************************************************)
\* COUNTRY_SIMPLE, each name split into its words, in list order
COUNTRY_SIMPLE ==
    << <<"Canada">>, <<"Belgium">>, <<"Poland">>, <<"Taiwan">>,
       <<"Singapore">>, <<"United", "Kingdom">>, <<"United", "States">>,
       <<"Netherlands">>, <<"France">>, <<"Germany">>, <<"Italy">>,
       <<"Spain">>, <<"Portugal">>, <<"Mexico">>, <<"Brazil">>, <<"China">>,
       <<"Japan">>, <<"Korea">>, <<"Turkey">>, <<"Australia">>,
       <<"New", "Zealand">>, <<"Thailand">>, <<"Indonesia">>, <<"Malaysia">>,
       <<"Philippines">>, <<"Vietnam">>, <<"Cambodia">>, <<"Laos">>,
       <<"Myanmar">>, <<"India">>, <<"Pakistan">>, <<"Bangladesh">>,
       <<"Sri", "Lanka">>, <<"U.A.E">>, <<"United", "Arab", "Emirates">> >>

\* the literal, case-sensitive label tested by `"Country Of Origin" in marks`
OriginLabel == <<"Country", "Of", "Origin">>

\* Words of the model's vocabulary that differ only in letter case
\* (re.I makes the country and prefix patterns case-insensitive).
FoldPairs == { <<"vietnam", "Vietnam">>, <<"VIETNAM", "Vietnam">>,
               <<"kingdom", "Kingdom">>, <<"of", "Of">>, <<"OF", "Of">>,
               <<"republic", "Republic">>, <<"People's", "people's">> }

SameFold(a, b) ==
    \/ a = b
    \/ <<a, b>> \in FoldPairs
    \/ <<b, a>> \in FoldPairs
    \/ \E c \in {p[2] : p \in FoldPairs} :
          <<a, c>> \in FoldPairs /\ <<b, c>> \in FoldPairs

\* words matching [A-Z][a-z]+ as a whole
CapWords == {"Country", "Of", "Origin", "Vietnam", "Canada", "Hanoi",
             "Kingdom", "Republic", "Viet", "Nam", "Ship", "To", "Korea",
             "Spain"}

IsCapWord(w) == w \in CapWords

\* re.search(rf"\b{name}\b", pre, flags=re.I): the words of `name` occur as
\* consecutive whole words of `pre`, letter case ignored
CountryIn(name, pre) ==
    \E i \in 1..Len(pre) :
        /\ i + Len(name) - 1 <= Len(pre)
        /\ \A k \in 1..Len(name) : SameFold(pre[i + k - 1], name[k])

LabelPositions(t) == {i \in 1..Len(t) : PhraseAt(t, i, OriginLabel)}

\* a dest_from_marks that does not cut the text at the label
MarksBeforeOrigin_NoSplit(m) == m

\* lines 155-157: pre = marks, or marks.split("Country Of Origin", 1)[0]
MarksBeforeOrigin(m) ==
    IF LabelPositions(m) # {}
    THEN SubSeq(m, 1, Min(LabelPositions(m)) - 1)
    ELSE m

PrefixWords == {"kingdom", "republic", "state", "federal", "commonwealth"}
FoldsInto(w, S) == \E x \in S : SameFold(w, x)

\* words that open / close a parenthetical qualifier
OpensParen(w)  == w \in {"(Republic", "(ROC)"}
ClosesParen(w) == w \in {"of)", "(ROC)"}

RECURSIVE ReplaceAliases(_)
\* .replace("Viet Nam", "Vietnam").replace("Korea, Republic of", "Korea")
\* .replace("U.S.A", "United States")
ReplaceAliases(t) ==
    IF t = <<>> THEN <<>>
    ELSE IF PhraseAt(t, 1, <<"Viet", "Nam">>)
         THEN <<"Vietnam">> \o ReplaceAliases(SubSeq(t, 3, Len(t)))
    ELSE IF PhraseAt(t, 1, <<"Korea,", "Republic", "of">>)
         THEN <<"Korea">> \o ReplaceAliases(SubSeq(t, 4, Len(t)))
    ELSE IF Head(t) = "U.S.A"
         THEN <<"United", "States">> \o ReplaceAliases(Tail(t))
    ELSE <<Head(t)>> \o ReplaceAliases(Tail(t))

\* clean_long_country_name, lines 139-148
clean_long_country_name(s) ==
    LET t1 == IF /\ Len(s) >= 3
                 /\ FoldsInto(s[1], PrefixWords)
                 /\ SameFold(s[2], "of")
              THEN SubSeq(s, 3, Len(s)) ELSE s
        opens == {i \in 1..Len(t1) : OpensParen(t1[i])}
        t2 == IF opens # {} /\ ClosesParen(t1[Len(t1)])
              THEN SubSeq(t1, 1, Min(opens) - 1) ELSE t1
        t3 == IF /\ Len(t2) >= 4
                 /\ SameFold(t2[1], "people's")
                 /\ SameFold(t2[2], "republic")
                 /\ SameFold(t2[3], "of")
              THEN SubSeq(t2, 4, Len(t2)) ELSE t2
    IN  ReplaceAliases(t3)

\* a loop that stops at the first name of the list that matches
LastCountryFound_First(pre) ==
    LET hits == {i \in 1..Len(COUNTRY_SIMPLE) : CountryIn(COUNTRY_SIMPLE[i], pre)}
    IN  IF hits = {} THEN <<>> ELSE COUNTRY_SIMPLE[Min(hits)]

\* lines 159-162: the loop keeps the last name of the list that matches
LastCountryFound(pre) ==
    LET hits == {i \in 1..Len(COUNTRY_SIMPLE) : CountryIn(COUNTRY_SIMPLE[i], pre)}
    IN  IF hits = {} THEN <<>>
        ELSE COUNTRY_SIMPLE[CHOOSE i \in hits : \A j \in hits : j <= i]

\* line 168: ([A-Z][a-z]+(?:\s+[A-Z][a-z]+){0,2})\s*$  --  the leftmost
\* match that reaches the end: the run of capitalised words that ends the
\* text, at most three of them
TailCapWords(pre) ==
    LET n == Len(pre)
        runs == {k \in 1..3 : k <= n /\ \A j \in (n - k + 1)..n : IsCapWord(pre[j])}
    IN  IF runs = {} THEN <<>>
        ELSE LET k == CHOOSE x \in runs : \A y \in runs : y <= x
             IN  SubSeq(pre, n - k + 1, n)

\* dest_from_marks, lines 150-169
dest_from_marks(m) ==
    IF m = <<>> THEN <<>>
    ELSE LET pre   == MarksBeforeOrigin(m)
             found == LastCountryFound(pre)
             tail  == TailCapWords(pre)
         IN  IF found # <<>> THEN clean_long_country_name(found)
             ELSE IF tail # <<>> THEN clean_long_country_name(tail)
             ELSE <<>>

\* ---- bounded inputs of the Destination Resolver
MaxPreWords == 3

DestVocab == {"MARKS", "NIKE", "1234567", "Country", "Of", "Origin", ":",
              "Vietnam", "Canada", "Hanoi", "Kingdom", "vietnam", "Viet", "Nam"}

AfterPrefix == { <<>>, OriginLabel, OriginLabel \o <<":", "Vietnam">>,
                 OriginLabel \o <<":", "Canada">> }

MarksInputs == {p \o s : p \in SeqsUpTo(DestVocab, MaxPreWords), s \in AfterPrefix}

(***************************************************************************)
(* Field Rule Extractor: parse_pl (pdf_processor_nike.py 171-248; the same *)
(* code is parse_pl_pdf in pdf_processor.py 167-244).                      *)
(***************************************************************************)
\* the keys of the record built by parse_pl, lines 182-186
PLFields == {"Invoice Number", "Date", "PO", "Reference PO#", "Item Seq.",
             "Material", "Desc", "Customer Ship To #", "Plant",
             "Total Gross Kgs", "Total Cartons", "Total Units", "Marks"}

\* lines 182-186: every field starts as ""
DefaultRow == [f \in PLFields |-> <<>>]

\* norm, lines 20-22: whitespace runs collapsed and the ends stripped; on a
\* word sequence that leaves the words, without empty ones
norm(s) == SelectSeq(s, LAMBDA w : w # "")

\* words the value classes of the patterns accept as a whole
InvoiceWords == {"A1", "B2"}                    \* [A-Z0-9\-\/]+
CodeWords    == {"VN01", "VN02", "A1", "B2", "CAP", "12", "1234567", "7654321",
                 "7777777"}                     \* [A-Z0-9\-]+
DmyWords     == {"5/8/2025", "20-08-2025", "39/19/2025"}
                                                \* [0-3]?\d[\/\-][01]?\d[\/\-]\d{4}
NumberWords  == {"12", "1234567", "7654321", "7777777"}       \* [\d\.,]+
PONumbers    == {"1234567", "7654321", "7777777"}             \* \d{7,}
ShipToWords  == {"1234567", "7654321", "7777777"}             \* \d{6,}

\* to_dmy, lines 24-39, on the date words of the model: a day/month/year with
\* "/" or "-" is rewritten zero-padded with "/"; a word no format parses is
\* returned unchanged
to_dmy(w) ==
    CASE w = "5/8/2025"   -> "05/08/2025"
      [] w = "20-08-2025" -> "20/08/2025"
      [] OTHER            -> w

\* re.search of `label` followed by one value word of class `ok`: the value
\* of the leftmost match, <<>> when there is none
Search(txt, label, ok) ==
    LET at == {i \in 1..Len(txt) : /\ PhraseAt(txt, i, label)
                                   /\ i + Len(label) <= Len(txt)
                                   /\ txt[i + Len(label)] \in ok}
    IN  IF at = {} THEN <<>> ELSE <<txt[Min(at) + Len(label)]>>

\* the words at which a stop label of RE_REFPO's lookahead (lines 174-175)
\* or of the Desc pattern (line 220) begins
StopLabelAt(txt, j) ==
    /\ j <= Len(txt)
    /\ \/ txt[j] \in {"Material:", "Material", "Desc:", "Desc", "Plant:", "Plant"}
       \/ PhraseAt(txt, j, <<"Item", "Seq.:">>)
       \/ PhraseAt(txt, j, <<"Customer", "Ship", "To">>)
       \/ PhraseAt(txt, j, <<"Total", "CBM:">>)
       \/ PhraseAt(txt, j, <<"Total", "Net", "Kgs:">>)
       \/ PhraseAt(txt, j, <<"Total", "Gross", "Kgs:">>)

\* positions, in increasing order, as a sequence
RECURSIVE Ascending(_)
Ascending(S) == IF S = {} THEN <<>>
                ELSE <<Min(S)>> \o Ascending(S \ {Min(S)})

\* RE_REFPO.finditer, lines 173-177: "Reference PO#: <7+ digits>" followed
\* by a stop label or by the end of the text
RE_REFPO(txt) ==
    LET at == {i \in 1..Len(txt) :
                 /\ PhraseAt(txt, i, <<"Reference", "PO#:">>)
                 /\ i + 2 <= Len(txt)
                 /\ txt[i + 2] \in PONumbers
                 /\ (i + 2 = Len(txt) \/ StopLabelAt(txt, i + 3))}
        ord == Ascending(at)
    IN  [k \in 1..Len(ord) |-> txt[ord[k] + 2]]

\* RE_PO_ANY.finditer, line 178:  \bPO\W*#?\W*[: ]\s*(\d{7,})  --  a word
\* "PO" with any punctuation, then a number of 7+ digits; the "PO#:" of a
\* "Reference PO#:" is such a word
RE_PO_ANY(txt) ==
    LET at == {i \in 1..Len(txt) :
                 /\ txt[i] \in {"PO:", "PO#:", "PO", "PO#"}
                 /\ i + 1 <= Len(txt)
                 /\ txt[i + 1] \in PONumbers}
        ord == Ascending(at)
    IN  [k \in 1..Len(ord) |-> txt[ord[k] + 1]]

\* the Desc pattern, lines 219-221: the words after "Desc:", at least one,
\* up to the first following stop label; no match without a stop label
GrabDesc(txt) ==
    LET at == {i \in 1..Len(txt) :
                 /\ txt[i] = "Desc:"
                 /\ \E j \in (i + 2)..Len(txt) : StopLabelAt(txt, j)}
    IN  IF at = {} THEN <<>>
        ELSE LET i == Min(at)
                 j == Min({x \in (i + 2)..Len(txt) : StopLabelAt(txt, x)})
             IN  norm(SubSeq(txt, i + 1, j - 1))

\* `row[f] or grab(...)`, lines 217-226: the field keeps a non-empty value
KeepOr(old, new) == IF old # <<>> THEN old ELSE new

\* `if m: row[f] = ...`, lines 196-197, 203-204 and 230-231: the field is
\* assigned on every page whose text matches
OverwriteIf(old, m, new) == IF m # <<>> THEN new ELSE old

\* one iteration of the page loop, lines 192-234, on the record
PageRow(r, page) ==
    LET txt == page.txt
        inv == Search(txt, <<"Invoice", "Number:">>, InvoiceWords)
        dat == Search(txt, <<"Date:">>, DmyWords)
        mk  == page.mk
    IN  [f \in PLFields |->
          CASE f = "Invoice Number" -> OverwriteIf(r[f], inv, norm(inv))
            [] f = "Date" ->
                 OverwriteIf(r[f], dat, IF dat = <<>> THEN <<>> ELSE <<to_dmy(dat[1])>>)
            [] f = "Item Seq." -> KeepOr(r[f], norm(Search(txt, <<"Item", "Seq.:">>, CodeWords)))
            [] f = "Material" -> KeepOr(r[f], norm(Search(txt, <<"Material:">>, CodeWords)))
            [] f = "Desc" -> KeepOr(r[f], GrabDesc(txt))
            [] f = "Customer Ship To #" ->
                 KeepOr(r[f], norm(Search(txt, <<"Customer", "Ship", "To:">>, ShipToWords)))
            [] f = "Plant" -> KeepOr(r[f], norm(Search(txt, <<"Plant:">>, CodeWords)))
            [] f = "Total Gross Kgs" ->
                 KeepOr(r[f], norm(Search(txt, <<"Total", "Gross", "Kgs:">>, NumberWords)))
            [] f = "Total Cartons" ->
                 KeepOr(r[f], norm(Search(txt, <<"Total", "Cartons:">>, NumberWords)))
            [] f = "Total Units" ->
                 KeepOr(r[f], norm(Search(txt, <<"Total", "Units:">>, NumberWords)))
            [] f = "Marks" -> OverwriteIf(r[f], mk, norm(mk))
            [] OTHER -> r[f]]

\* the PO fields set from the last candidate of each list
SetPO_Last(r, refs, pos) ==
    [r EXCEPT !["Reference PO#"] = IF refs # <<>> THEN <<refs[Len(refs)]>>
                                   ELSE IF pos # <<>> THEN <<pos[Len(pos)]>> ELSE @,
              !["PO"] = IF pos # <<>> THEN <<pos[Len(pos)]>> ELSE @]

\* lines 236-243: the PO fields are set from the candidate lists
SetPO(r, refs, pos) ==
    [r EXCEPT !["Reference PO#"] = IF refs # <<>> THEN <<refs[1]>>
                                   ELSE IF pos # <<>> THEN <<pos[1]>> ELSE @,
              !["PO"] = IF pos # <<>> THEN <<pos[1]>> ELSE @]

(***************************************************************************)
(* Callers of parse_pl that hand the record on.                            *)
(***************************************************************************)
\* a record as a function extended / overridden at key k
Put(rec, k, v) == [x \in DOMAIN rec \cup {k} |-> IF x = k THEN v ELSE rec[x]]

\* PDFProcessor.process_packing_list, pdf_processor_nike.py 312-329: DEST is
\* added only when marks and the destination found in them are non-empty
process_packing_list(r) ==
    LET d == IF r["Marks"] # <<>> THEN dest_from_marks(r["Marks"]) ELSE <<>>
    IN  IF d # <<>> THEN Put(r, "DEST", d) ELSE r

\* str.upper() on the words of the model that have lower-case letters
UpperWord(w) ==
    CASE w = "Canada"  -> "CANADA"
      [] w = "Country" -> "COUNTRY"
      [] w = "Of"      -> "OF"
      [] w = "Origin"  -> "ORIGIN"
      [] w = "Vietnam" -> "VIETNAM"
      [] OTHER         -> w

Upper(t) == [i \in 1..Len(t) |-> UpperWord(t[i])]

ones  == <<"ONE", "TWO", "THREE", "FOUR", "FIVE", "SIX", "SEVEN", "EIGHT", "NINE">>
teens == <<"TEN", "ELEVEN", "TWELVE", "THIRTEEN", "FOURTEEN", "FIFTEEN",
           "SIXTEEN", "SEVENTEEN", "EIGHTEEN", "NINETEEN">>
tens  == <<"", "TWENTY", "THIRTY", "FORTY", "FIFTY", "SIXTY", "SEVENTY",
           "EIGHTY", "NINETY">>

\* convert_hundreds, pdf_processor.py 385-402
convert_hundreds(num) ==
    LET h    == IF num >= 100 THEN <<ones[num \div 100], "HUNDRED">> ELSE <<>>
        r    == num % 100
        rest == IF r >= 20
                THEN <<tens[r \div 10]>> \o (IF r % 10 > 0 THEN <<ones[r % 10]>> ELSE <<>>)
                ELSE IF r >= 10 THEN <<teens[r - 9]>>
                ELSE IF r > 0 THEN <<ones[r]>> ELSE <<>>
    IN  h \o rest

\* number_to_words, pdf_processor.py 375-414, for n < 1000000
number_to_words(n) ==
    IF n = 0 THEN <<"ZERO">>
    ELSE IF n < 1000 THEN convert_hundreds(n)
    ELSE convert_hundreds(n \div 1000) \o <<"THOUSAND">>
         \o (IF n % 1000 > 0 THEN convert_hundreds(n % 1000) ELSE <<>>)

\* int(float(str(v).replace(",", ""))) on the number words of the model
CartonsValue(w) ==
    CASE w = "12"      -> 12
      [] w = "1234567" -> 1234567
      [] w = "7654321" -> 7654321
      [] OTHER         -> 7777777

\* get_invoice_data_dict, pdf_processor.py 345-373
get_invoice_data_dict(pl_data, asi_description, d) ==
    LET d1 == IF asi_description # <<>>
              THEN Put(pl_data, "DESCRIPTION", asi_description) ELSE pl_data
        d2 == IF d # <<>> THEN Put(Put(d1, "DEST", d), "Destination", d) ELSE d1
        d3 == IF "Total Cartons" \in DOMAIN d2 /\ d2["Total Cartons"] # <<>>
              THEN IF d2["Total Cartons"][1] \in NumberWords
                   THEN Put(d2, "Total Cartons In Words",
                            LET n == CartonsValue(d2["Total Cartons"][1])
                            IN  IF n < 1000000 THEN number_to_words(n)
                                ELSE d2["Total Cartons"])
                   ELSE Put(d2, "Total Cartons In Words", <<>>)
              ELSE d2
    IN  IF "Marks" \in DOMAIN d3 THEN Put(d3, "Marks", Upper(d3["Marks"])) ELSE d3

\* ---- bounded inputs of the extractor
MaxPages   == 2
MaxPhrases == 2

Phrases == { <<"Invoice", "Number:", "A1">>, <<"Invoice", "Number:", "B2">>,
             <<"Date:", "5/8/2025">>,
             <<"Reference", "PO#:", "1234567">>, <<"PO:", "7654321">>,
             <<"Plant:", "VN01">>, <<"Total", "Cartons:", "12">> }

PageTexts == {Flatten(ps) : ps \in SeqsUpTo(Phrases, MaxPhrases)}

\* what extract_marks returns for a page
MarksTexts == { <<>>,
                <<"NIKE", "PO:", "7777777", "Canada">>,
                <<"MARKS", "NIKE", "1234567", "Country", "Of", "Origin", ":", "Vietnam">> }

Pages == [txt : PageTexts, mk : MarksTexts]

Documents == SeqsUpTo(Pages, MaxPages)

AsiDescriptions == { <<>>, <<"SKULL", "CAP">> }

(***************************************************************************)
(* parse_pl as a state machine: one step per page of the document.         *)
(***************************************************************************)
ParseInit ==
    /\ pc = "parse_start"
    /\ pdf \in Documents
    /\ pageNo = 0
    /\ row = DefaultRow
    /\ refpo_hits = <<>>
    /\ po_hits = <<>>
    /\ data = None

\* line 190: pdfplumber.open(pdf_path) succeeds
OpenPdf ==
    /\ pc = "parse_start"
    /\ pc' = "parse_pages"
    /\ UNCHANGED <<pdf, pageNo, row, refpo_hits, po_hits, data, logged>>
    /\ UNCHANGED notParseVars

\* line 190 raises: lines 245-248 log the error and return the record
OpenPdfFails ==
    /\ pc = "parse_start"
    /\ pc' = "parse_returned"
    /\ logged' = TRUE
    /\ UNCHANGED <<pdf, pageNo, row, refpo_hits, po_hits, data>>
    /\ UNCHANGED notParseVars

\* lines 191-234: the body of the page loop for the next page
ProcessPage ==
    /\ pc = "parse_pages"
    /\ pageNo < Len(pdf)
    /\ LET page == pdf[pageNo + 1]
       IN  /\ row' = PageRow(row, page)
           /\ refpo_hits' = refpo_hits \o RE_REFPO(page.txt)
           /\ po_hits' = po_hits \o RE_PO_ANY(page.txt)
                         \o (IF page.mk # <<>> THEN RE_PO_ANY(page.mk) ELSE <<>>)
    /\ pageNo' = pageNo + 1
    /\ UNCHANGED <<pc, pdf, data, logged>>
    /\ UNCHANGED notParseVars

\* reading the next page raises (line 192): lines 245-248 log the error and
\* return the record as the pages before have left it
ReadPageFails ==
    /\ pc = "parse_pages"
    /\ pageNo < Len(pdf)
    /\ pc' = "parse_returned"
    /\ logged' = TRUE
    /\ UNCHANGED <<pdf, pageNo, row, refpo_hits, po_hits, data>>
    /\ UNCHANGED notParseVars

\* lines 236-248: after the last page the PO fields are set and the record
\* is returned
FinishParse ==
    /\ pc = "parse_pages"
    /\ pageNo = Len(pdf)
    /\ row' = SetPO(row, refpo_hits, po_hits)
    /\ pc' = "parse_returned"
    /\ UNCHANGED <<pdf, pageNo, refpo_hits, po_hits, data, logged>>
    /\ UNCHANGED notParseVars

\* PDFProcessor.process_packing_list hands out the record of parse_pl
ProcessPackingList ==
    /\ pc = "parse_returned"
    /\ data' = process_packing_list(row)
    /\ pc' = "handed_out"
    /\ UNCHANGED <<pdf, pageNo, row, refpo_hits, po_hits, logged>>
    /\ UNCHANGED notParseVars

\* process_pdf_files (pdf_processor.py 304-343) computes dest from the marks;
\* its caller builds the substitution record with get_invoice_data_dict
GetInvoiceDataDict ==
    /\ pc = "parse_returned"
    /\ \E asi \in AsiDescriptions :
         data' = get_invoice_data_dict(
                    row, asi,
                    IF row["Marks"] # <<>> THEN dest_from_marks(row["Marks"]) ELSE <<>>)
    /\ pc' = "substitution_record"
    /\ UNCHANGED <<pdf, pageNo, row, refpo_hits, po_hits, logged>>
    /\ UNCHANGED notParseVars

(***************************************************************************)
(* dest_from_marks as a call on a bounded marks text.                      *)
(***************************************************************************)
DestInit ==
    /\ marks \in MarksInputs
    /\ dest = <<>>

DestIdle ==
    /\ marks = <<>>
    /\ dest = <<>>

DestFromMarks ==
    /\ pc = "dest_call"
    /\ dest' = dest_from_marks(marks)
    /\ pc' = "dest_returned"
    /\ UNCHANGED <<marks, logged>>
    /\ UNCHANGED notDestVars

(***************************************************************************)
(* Placeholder Template Engine: TemplateManager (template_manager.py) and  *)
(* NikeTemplateManager (template_manager_nike.py).                         *)
(*                                                                         *)
(* A cell text is a sequence of one-character strings.  A cell is a record *)
(* of its value, its data type ("s" string, "n" number) and its five style *)
(* attributes; a worksheet is its cells in iter_rows order with its page   *)
(* setup; a workbook is its sheet names in order with the sheets.          *)
(***************************************************************************)
Managers == {"TemplateManager", "NikeTemplateManager"}

\* self.placeholders_pattern: \[([^\]]+)\]  and  \{([^}]+)\}
placeholders_pattern(m) ==
    IF m = "TemplateManager" THEN [open |-> "[", close |-> "]"]
                             ELSE [open |-> "{", close |-> "}"]

\* the methods each class defines
Methods(m) ==
    IF m = "TemplateManager"
    THEN {"scan_template_placeholders", "replace_placeholders_in_sheet",
          "_replace_placeholders_in_text", "create_filled_template",
          "_apply_page_setup", "export_to_pdf", "get_template_info",
          "validate_template"}
    ELSE {"header_key", "build_header_map_and_get_cols", "find_or_append_row",
          "fill_excel_row", "scan_template_placeholders", "fill_template",
          "replace_placeholders_in_sheet", "_replace_placeholders_in_text",
          "create_filled_template",
          "replace_placeholders_in_sheet_preserve_format", "process_nike_data",
          "get_template_info", "validate_template"}

\* position of the delimiter closing a match of the pattern that starts at
\* i, or 0: text[i] is the opening delimiter, [^close]+ takes at least one
\* character and runs up to the first closing delimiter
MatchEnd(pat, text, i) ==
    IF text[i] # pat.open THEN 0
    ELSE LET closes == {j \in (i + 1)..Len(text) : text[j] = pat.close}
         IN  IF closes = {} THEN 0
             ELSE IF Min(closes) >= i + 2 THEN Min(closes) ELSE 0

\* pattern.findall(text) from position i on: group 1 of the successive
\* non-overlapping matches, leftmost first
RECURSIVE findall_from(_, _, _)
findall_from(pat, text, i) ==
    IF i > Len(text) THEN <<>>
    ELSE LET j == MatchEnd(pat, text, i)
         IN  IF j = 0 THEN findall_from(pat, text, i + 1)
             ELSE <<SubSeq(text, i + 1, j - 1)>> \o findall_from(pat, text, j + 1)

findall(pat, text) == findall_from(pat, text, 1)

\* a replace_func that blanks a placeholder the data map does not have
replace_func_Blank(dmap, placeholder, group0) ==
    IF placeholder \in DOMAIN dmap THEN dmap[placeholder] ELSE <<>>

\* replace_func(match): str(data_dict.get(placeholder, match.group(0)));
\* the values of the data map are strings, which str() returns as they are
replace_func(dmap, placeholder, group0) ==
    IF placeholder \in DOMAIN dmap THEN dmap[placeholder] ELSE group0

\* pattern.sub(replace_func, text) from position i on
RECURSIVE sub_from(_, _, _, _)
sub_from(pat, dmap, text, i) ==
    IF i > Len(text) THEN <<>>
    ELSE LET j == MatchEnd(pat, text, i)
         IN  IF j = 0 THEN <<text[i]>> \o sub_from(pat, dmap, text, i + 1)
             ELSE replace_func(dmap, SubSeq(text, i + 1, j - 1), SubSeq(text, i, j))
                  \o sub_from(pat, dmap, text, j + 1)

_replace_placeholders_in_text(m, text, dmap) ==
    sub_from(placeholders_pattern(m), dmap, text, 1)

\* self.<name>(text, data_dict): an attribute the class does not define
\* raises AttributeError
CallTextMethod(m, name, text, dmap) ==
    IF name \in Methods(m) /\ name = "_replace_placeholders_in_text"
    THEN [raised |-> FALSE, value |-> _replace_placeholders_in_text(m, text, dmap)]
    ELSE [raised |-> TRUE, value |-> text]

\* `cell.value and isinstance(cell.value, str)`
IsText(cell) == cell.data_type = "s" /\ cell.value # <<>>

\* an assignment that gives the cell the default style
SetValue_ResetStyle(cell, v) ==
    [value |-> v, data_type |-> "s", font |-> "Calibri 11", fill |-> "none",
     border |-> "none", alignment |-> "general", number_format |-> "General"]

\* cell.value = new_value, a string: the style attributes are not touched
SetValue(cell, v) == [cell EXCEPT !.value = v, !.data_type = "s"]

\* the placeholder names of one worksheet
ScanSheet(m, ws) ==
    UNION { {findall(placeholders_pattern(m), ws.cells[i].value)[k] :
                k \in 1..Len(findall(placeholders_pattern(m), ws.cells[i].value))} :
            i \in {n \in 1..Len(ws.cells) : IsText(ws.cells[n])} }

\* the sheets a scan or a fill takes for its sheet_name argument
SheetsToScan(book, sheet_name) ==
    IF sheet_name # None /\ \E i \in 1..Len(book.sheetnames) : book.sheetnames[i] = sheet_name
    THEN <<sheet_name>>
    ELSE book.sheetnames

\* scan_template_placeholders(template_path, sheet_name) on a workbook that
\* loads; TemplateManager has no sheet_name and scans every sheet.  The
\* sorted list it returns is held as the set of its elements.
scan_template_placeholders(m, book, sheet_name) ==
    LET sheets == IF m = "TemplateManager" THEN book.sheetnames
                  ELSE SheetsToScan(book, sheet_name)
    IN  UNION {ScanSheet(m, book.ws[sheets[i]]) : i \in 1..Len(sheets)}

\* one cell of replace_placeholders_in_sheet
ReplaceInCell(m, cell, dmap) ==
    IF IsText(cell)
    THEN LET new_value == _replace_placeholders_in_text(m, cell.value, dmap)
         IN  IF new_value # cell.value THEN SetValue(cell, new_value) ELSE cell
    ELSE cell

Count(cells, old) == Cardinality({i \in 1..Len(cells) : cells[i] # old[i]})

\* replace_placeholders_in_sheet(worksheet, data_dict): the worksheet after
\* the call and the count it returns.  A worksheet has no _shapes attribute,
\* so the shapes branch of TemplateManager does nothing.
replace_placeholders_in_sheet(m, ws, dmap) ==
    LET cells == [i \in 1..Len(ws.cells) |-> ReplaceInCell(m, ws.cells[i], dmap)]
    IN  [ws |-> [ws EXCEPT !.cells = cells],
         replacements_made |-> Count(cells, ws.cells)]

\* the cell loop of replace_placeholders_in_sheet_preserve_format from cell
\* i on: `cells` is the sheet so far, n the replacements made so far.  An
\* exception at a cell ends the loop (except clause, lines 325-326) and the
\* function returns the count reached.
RECURSIVE preserve_format_from(_, _, _, _, _)
preserve_format_from(m, cells, dmap, i, n) ==
    IF i > Len(cells) THEN [cells |-> cells, replacements_made |-> n, error |-> FALSE]
    ELSE IF IsText(cells[i]) /\ \E k \in 1..Len(cells[i].value) : cells[i].value[k] = "{"
    THEN LET old == cells[i]
             call == CallTextMethod(m, "replace_placeholders_in_text", old.value, dmap)
         IN  IF call.raised
             THEN [cells |-> cells, replacements_made |-> n, error |-> TRUE]
             ELSE IF old.value # call.value
             THEN preserve_format_from(m,
                      [cells EXCEPT ![i] =
                          [SetValue(old, call.value) EXCEPT
                              !.font = old.font, !.fill = old.fill,
                              !.border = old.border, !.alignment = old.alignment,
                              !.number_format = old.number_format]],
                      dmap, i + 1, n + 1)
             ELSE preserve_format_from(m, cells, dmap, i + 1, n)
    ELSE preserve_format_from(m, cells, dmap, i + 1, n)

replace_placeholders_in_sheet_preserve_format(m, ws, dmap) ==
    LET r == preserve_format_from(m, ws.cells, dmap, 1, 0)
    IN  [ws |-> [ws EXCEPT !.cells = r.cells],
         replacements_made |-> r.replacements_made,
         error |-> r.error]

\* _apply_page_setup(worksheet)
_apply_page_setup(ws) ==
    [ws EXCEPT !.page_setup = [orientation |-> "portrait", paperSize |-> "A4",
                               fitToPage |-> TRUE, fitToHeight |-> "1",
                               fitToWidth |-> "1"],
               !.page_margins = [left |-> "0.5", right |-> "0.5", top |-> "0.5",
                                 bottom |-> "0.5", header |-> "0.3",
                                 footer |-> "0.3"]]

\* the sum of a sequence of counts
RECURSIVE SumSeq(_)
SumSeq(ns) == IF ns = <<>> THEN 0 ELSE Head(ns) + SumSeq(Tail(ns))

InSeq(x, xs) == \E i \in 1..Len(xs) : xs[i] = x

\* files: the one template file that exists, and where outputs may go
TemplatePath == "templates/co.xlsx"
TemplatePaths == {TemplatePath, "templates/missing.xlsx"}
OutputPaths == {"outputs/filled.xlsx", "filled.xlsx"}

\* os.path.dirname(output_path)
dirname(p) == IF p = "outputs/filled.xlsx" THEN "outputs" ELSE ""

EmptyWb == [sheetnames |-> <<>>, ws |-> <<>>]
NoFile == [exists |-> FALSE, book |-> EmptyWb]
NoOp == [name |-> None, sheet_name |-> None, template_path |-> None,
         output_path |-> None]
NoRet == [ok |-> FALSE, raised |-> FALSE, replacements |-> 0, path |-> None]

\* TemplateManager.create_filled_template(template_path, data_dict,
\* output_path) with `book` the content of the template file: the workbook
\* object at the end of the call, the output file and the returned pair
create_filled_template(book, template_path, dmap, output_path, out) ==
    IF template_path # TemplatePath
    THEN [wb |-> EmptyWb, output |-> out, handle |-> "none",
          ret |-> [NoRet EXCEPT !.ok = FALSE]]
    ELSE LET done == [s \in DOMAIN book.ws |->
                         replace_placeholders_in_sheet("TemplateManager", book.ws[s], dmap)]
             total == SumSeq([i \in 1..Len(book.sheetnames) |->
                                 done[book.sheetnames[i]].replacements_made])
             after == [book EXCEPT !.ws =
                          [s \in DOMAIN book.ws |-> _apply_page_setup(done[s].ws)]]
         IN  IF dirname(output_path) = ""
             THEN [wb |-> after, output |-> out, handle |-> "open",
                   ret |-> [NoRet EXCEPT !.ok = FALSE]]
             ELSE [wb |-> after, output |-> [exists |-> TRUE, book |-> after],
                   handle |-> "closed",
                   ret |-> [NoRet EXCEPT !.ok = TRUE, !.replacements = total]]

\* lines 263-267 of NikeTemplateManager.create_filled_template
sheets_to_process(book, sheet_name) ==
    IF sheet_name # None /\ InSeq(sheet_name, book.sheetnames)
    THEN <<sheet_name>>
    ELSE SelectSeq(book.sheetnames, LAMBDA s : s # "Data")

\* NikeTemplateManager.create_filled_template(template_path, data_dict,
\* output_path, sheet_name)
nike_create_filled_template(book, template_path, dmap, output_path, sheet_name, out) ==
    IF template_path # TemplatePath
    THEN [wb |-> EmptyWb, output |-> out, handle |-> "none",
          ret |-> [NoRet EXCEPT !.ok = FALSE]]
    ELSE LET sheets == sheets_to_process(book, sheet_name)
             done == [s \in DOMAIN book.ws |->
                         replace_placeholders_in_sheet_preserve_format(
                             "NikeTemplateManager", book.ws[s], dmap)]
             total == SumSeq([i \in 1..Len(sheets) |-> done[sheets[i]].replacements_made])
             after == [book EXCEPT !.ws =
                          [s \in DOMAIN book.ws |->
                              IF InSeq(s, sheets) THEN done[s].ws ELSE book.ws[s]]]
         IN  IF dirname(output_path) = ""
             THEN [wb |-> after, output |-> out, handle |-> "open",
                   ret |-> [NoRet EXCEPT !.ok = FALSE]]
             ELSE [wb |-> after, output |-> [exists |-> TRUE, book |-> after],
                   handle |-> "closed",
                   ret |-> [NoRet EXCEPT !.ok = TRUE, !.replacements = total]]

\* NikeTemplateManager.fill_template(template_path, sheet_name, data_dict):
\* returns the output path, or raises Exception
fill_template(book, template_path, sheet_name, dmap, out) ==
    IF template_path # TemplatePath
    THEN [wb |-> EmptyWb, output |-> out, handle |-> "none",
          ret |-> [NoRet EXCEPT !.raised = TRUE]]
    ELSE IF ~InSeq(sheet_name, book.sheetnames)
    THEN [wb |-> book, output |-> out, handle |-> "open",
          ret |-> [NoRet EXCEPT !.raised = TRUE]]
    ELSE LET done == replace_placeholders_in_sheet(
                         "NikeTemplateManager", book.ws[sheet_name], dmap)
             after == [book EXCEPT !.ws[sheet_name] = done.ws]
         IN  [wb |-> after, output |-> [exists |-> TRUE, book |-> after],
              handle |-> "closed",
              ret |-> [NoRet EXCEPT !.ok = TRUE,
                                    !.replacements = done.replacements_made,
                                    !.path = "outputs/co_sheet_timestamp.xlsx"]]

(***************************************************************************)
(* Bounded templates and data maps.                                        *)
(***************************************************************************)
\* characters of a cell text
MaxLen == 4
\* characters of a value of the data map
MaxValLen == 2

DefaultStyle == [font |-> "Calibri 11", fill |-> "none", border |-> "none",
                 alignment |-> "general", number_format |-> "General"]
TitleStyle   == [font |-> "Calibri 14 bold", fill |-> "solid", border |-> "thin",
                 alignment |-> "center", number_format |-> "@"]
Styles == {DefaultStyle, TitleStyle}

Cell(v, t, st) ==
    [value |-> v, data_type |-> t, font |-> st.font, fill |-> st.fill,
     border |-> st.border, alignment |-> st.alignment,
     number_format |-> st.number_format]

StyleOf(cell) ==
    [font |-> cell.font, fill |-> cell.fill, border |-> cell.border,
     alignment |-> cell.alignment, number_format |-> cell.number_format]

Sheet(cells) ==
    [cells |-> cells,
     page_setup |-> [orientation |-> "landscape", paperSize |-> "Letter",
                     fitToPage |-> FALSE, fitToHeight |-> "0", fitToWidth |-> "0"],
     page_margins |-> [left |-> "0.75", right |-> "0.75", top |-> "1",
                       bottom |-> "1", header |-> "0.5", footer |-> "0.5"]]

\* the characters of cell texts and values: the two delimiters of the
\* template family and a letter
Chars(m) == {placeholders_pattern(m).open, placeholders_pattern(m).close, "A"}
KeyNames == {<<"A">>}

CellTexts(m) == SeqsUpTo(Chars(m), MaxLen)
Values(m) == SeqsUpTo(Chars(m), MaxValLen)

\* the form sheet: a number cell, then a text cell
FormSheets(m) ==
    {Sheet(<<Cell(<<"7">>, "n", DefaultStyle), Cell(t, "s", st)>>) :
        t \in CellTexts(m), st \in Styles}

\* the row-append sheet "Data", holding one placeholder cell
DataSheet(m) ==
    Sheet(<<Cell(<<placeholders_pattern(m).open, "A", placeholders_pattern(m).close>>,
                 "s", DefaultStyle)>>)

Templates(m) ==
    {[sheetnames |-> <<"Form">>, ws |-> [s \in {"Form"} |-> f]] : f \in FormSheets(m)}
    \cup
    {[sheetnames |-> <<"Form", "Data">>,
      ws |-> [s \in {"Form", "Data"} |-> IF s = "Form" THEN f ELSE DataSheet(m)]] :
        f \in FormSheets(m)}

DataDicts(m) ==
    UNION {[K -> Values(m)] : K \in SUBSET KeyNames}

SheetNames == {None, "Form", "Data", "Missing"}

(***************************************************************************)
(* The template engine as calls on a bounded template: scan the template,  *)
(* call one fill operation, scan the output file.                          *)
(***************************************************************************)
FillInit ==
    /\ mgr \in Managers
    /\ template \in Templates(mgr)
    /\ data_dict \in DataDicts(mgr)
    /\ op = NoOp
    /\ wb = EmptyWb
    /\ output = NoFile
    /\ ret = NoRet
    /\ placeholders = {}
    /\ remaining = {}
    /\ handle = "none"

\* scan_template_placeholders(template_path) on the template
ScanTemplatePlaceholders ==
    /\ pc = "template"
    /\ placeholders' = scan_template_placeholders(mgr, template, None)
    /\ handle' = "closed"
    /\ pc' = "scanned"
    /\ UNCHANGED <<mgr, template, data_dict, op, wb, output, ret, remaining, logged>>
    /\ UNCHANGED notFillVars

\* TemplateManager.create_filled_template
CreateFilledTemplate ==
    /\ pc = "scanned"
    /\ mgr = "TemplateManager"
    /\ \E tp \in TemplatePaths, outp \in OutputPaths :
         LET r == create_filled_template(template, tp, data_dict, outp, output)
         IN  /\ op' = [name |-> "create_filled_template", sheet_name |-> None,
                       template_path |-> tp, output_path |-> outp]
             /\ wb' = r.wb
             /\ output' = r.output
             /\ ret' = r.ret
             /\ handle' = r.handle
             /\ logged' = ~r.ret.ok
    /\ pc' = "filled"
    /\ UNCHANGED <<mgr, template, data_dict, placeholders, remaining>>
    /\ UNCHANGED notFillVars

\* NikeTemplateManager.create_filled_template
NikeCreateFilledTemplate ==
    /\ pc = "scanned"
    /\ mgr = "NikeTemplateManager"
    /\ \E tp \in TemplatePaths, outp \in OutputPaths, sn \in SheetNames :
         LET r == nike_create_filled_template(template, tp, data_dict, outp, sn, output)
         IN  /\ op' = [name |-> "create_filled_template", sheet_name |-> sn,
                       template_path |-> tp, output_path |-> outp]
             /\ wb' = r.wb
             /\ output' = r.output
             /\ ret' = r.ret
             /\ handle' = r.handle
             /\ logged' = (~r.ret.ok \/
                           \E i \in 1..Len(sheets_to_process(template, sn)) :
                              replace_placeholders_in_sheet_preserve_format(
                                  mgr, template.ws[sheets_to_process(template, sn)[i]],
                                  data_dict).error)
    /\ pc' = "filled"
    /\ UNCHANGED <<mgr, template, data_dict, placeholders, remaining>>
    /\ UNCHANGED notFillVars

\* NikeTemplateManager.fill_template
FillTemplate ==
    /\ pc = "scanned"
    /\ mgr = "NikeTemplateManager"
    /\ \E tp \in TemplatePaths, sn \in SheetNames :
         LET r == fill_template(template, tp, sn, data_dict, output)
         IN  /\ op' = [name |-> "fill_template", sheet_name |-> sn,
                       template_path |-> tp, output_path |-> r.ret.path]
             /\ wb' = r.wb
             /\ output' = r.output
             /\ ret' = r.ret
             /\ handle' = r.handle
             /\ logged' = r.ret.raised
    /\ pc' = "filled"
    /\ UNCHANGED <<mgr, template, data_dict, placeholders, remaining>>
    /\ UNCHANGED notFillVars

\* replace_placeholders_in_sheet(worksheet, data_dict) of either class on a
\* worksheet of the loaded template
ReplacePlaceholdersInSheet ==
    /\ pc = "scanned"
    /\ \E i \in 1..Len(template.sheetnames) :
         LET sn == template.sheetnames[i]
             r == replace_placeholders_in_sheet(mgr, template.ws[sn], data_dict)
         IN  /\ op' = [name |-> "replace_placeholders_in_sheet", sheet_name |-> sn,
                       template_path |-> TemplatePath, output_path |-> None]
             /\ wb' = [template EXCEPT !.ws[sn] = r.ws]
             /\ ret' = [NoRet EXCEPT !.ok = TRUE, !.replacements = r.replacements_made]
    /\ pc' = "filled"
    /\ UNCHANGED <<mgr, template, data_dict, output, placeholders, remaining,
                   handle, logged>>
    /\ UNCHANGED notFillVars

\* scan_template_placeholders(output_path) on the file the fill wrote
RescanOutput ==
    /\ pc = "filled"
    /\ output.exists
    /\ remaining' = scan_template_placeholders(mgr, output.book, None)
    /\ handle' = "closed"
    /\ pc' = "rescanned"
    /\ UNCHANGED <<mgr, template, data_dict, op, wb, output, ret, placeholders, logged>>
    /\ UNCHANGED notFillVars

(***************************************************************************)
(* Row-append workflow of NikeTemplateManager (template_manager_nike.py    *)
(* 44-147, 330-377).  A worksheet is the sequence of its rows 1..max_row;  *)
(* a row is the tuple of its cell values; a cell value is a sequence of    *)
(* one-character strings, or NoValue for None.                             *)
(***************************************************************************)
NoValue == <<"None">>

\* str.upper() and str.lower() on the letters the bounded texts use
Letters ==
    <<"a", "b", "c", "d", "e", "f", "g", "h", "i", "j", "k", "l", "m", "n",
      "o", "p", "q", "r", "s", "t", "u", "v", "w", "x", "y", "z">>
Capitals ==
    <<"A", "B", "C", "D", "E", "F", "G", "H", "I", "J", "K", "L", "M", "N",
      "O", "P", "Q", "R", "S", "T", "U", "V", "W", "X", "Y", "Z">>

UpperChar(c) ==
    IF \E i \in 1..Len(Letters) : Letters[i] = c
    THEN Capitals[CHOOSE i \in 1..Len(Letters) : Letters[i] = c]
    ELSE c

LowerChar(c) ==
    IF \E i \in 1..Len(Capitals) : Capitals[i] = c
    THEN Letters[CHOOSE i \in 1..Len(Capitals) : Capitals[i] = c]
    ELSE c

\* re.sub(r"\s+", " ", s): every run of blanks becomes one blank
RECURSIVE CollapseBlanks(_)
CollapseBlanks(s) ==
    IF Len(s) <= 1 THEN s
    ELSE IF s[1] = " " /\ s[2] = " " THEN CollapseBlanks(Tail(s))
    ELSE <<s[1]>> \o CollapseBlanks(Tail(s))

\* str.strip()
RECURSIVE Strip(_)
Strip(s) ==
    IF s = <<>> THEN s
    ELSE IF s[1] = " " THEN Strip(Tail(s))
    ELSE IF s[Len(s)] = " " THEN Strip(SubSeq(s, 1, Len(s) - 1))
    ELSE s

\* re.sub(r"\s+", " ", str(v)).strip().upper()
inv_key(v) == LET t == Strip(CollapseBlanks(v)) IN [i \in 1..Len(t) |-> UpperChar(t[i])]

\* `v is None or str(v).strip() == ""`
IsEmptyCell(v) == v = NoValue \/ Strip(v) = <<>>

max_row(ws) == Len(ws)
Width(ws) == Len(ws[1])
EmptyRow(w) == [i \in 1..w |-> NoValue]

\* ws.cell(row=r, column=c).value = v; a row past max_row extends the sheet
SetCell(ws, r, c, v) ==
    LET grown == IF r <= Len(ws) THEN ws
                 ELSE ws \o [i \in 1..(r - Len(ws)) |-> EmptyRow(Width(ws))]
    IN  [grown EXCEPT ![r][c] = v]

\* an append target that is always the row after the last used one
AppendRow_AfterLast(ws, start) == max_row(ws) + 1

\* line 111, no empty cell met:
\* ws.max_row + 1 if ws.max_row >= start_row else start_row
AppendRow(ws, start) == IF max_row(ws) >= start THEN max_row(ws) + 1 ELSE start

\* a find_or_append_row that never reuses a row
find_or_append_row_NoReuse(ws, inv_col, start, inv) ==
    LET stops == {r \in start..max_row(ws) : IsEmptyCell(ws[r][inv_col])}
        t == IF stops # {} THEN Min(stops) ELSE AppendRow(ws, start)
    IN  [r |-> t, ws |-> SetCell(ws, t, inv_col, inv)]

\* find_or_append_row(ws, inv_col, start_row, invoice): the row returned and
\* the worksheet after the call
find_or_append_row(ws, inv_col, start, inv) ==
    LET stops == {r \in start..max_row(ws) :
                     \/ IsEmptyCell(ws[r][inv_col])
                     \/ inv_key(ws[r][inv_col]) = inv_key(inv)}
    IN  IF stops # {} /\ ~IsEmptyCell(ws[Min(stops)][inv_col])
        THEN [r |-> Min(stops), ws |-> ws]
        ELSE LET t == IF stops # {} THEN Min(stops) ELSE AppendRow(ws, start)
             IN  [r |-> t, ws |-> SetCell(ws, t, inv_col, inv)]

(***************************************************************************)
(* find_or_append_row as a call on a bounded invoice column.               *)
(***************************************************************************)
\* rows of the bounded sheets
MaxRow == 3

A123 == <<"A", "1", "2", "3">>
InvoiceCells == {NoValue, <<" ">>, <<"A", "1">>, <<"a", " ", "1">>, <<" ", "a", "1", " ">>, <<"B">>}
Invoices == {<<"A", "1">>, <<"a", "1", " ">>, <<"A", " ", " ", "1">>, A123}

\* the sheet of the example: rows 1-7 above the start row, row 8 holds
\* "A123", row 9 is empty
ExampleSheet ==
    [r \in 1..9 |-> IF r <= 7 THEN <<<<"B">>>> ELSE IF r = 8 THEN <<A123>> ELSE <<NoValue>>]

FindInit ==
    /\ \/ /\ sheet \in {[r \in 1..Len(f) |-> <<f[r]>>] :
                          f \in UNION {[1..k -> InvoiceCells] : k \in 1..MaxRow}}
          /\ start_row \in 1..(MaxRow + 2)
       \/ sheet = ExampleSheet /\ start_row = 8
    /\ invoice \in Invoices
    /\ pl_row_dict = <<>>
    /\ asi_desc = <<>>
    /\ dest_override = NoValue
    /\ header = <<>>
    /\ cols = <<>>
    /\ target = 0

GridIdle ==
    /\ sheet = <<>>
    /\ start_row = 0
    /\ invoice = <<>>
    /\ pl_row_dict = <<>>
    /\ asi_desc = <<>>
    /\ dest_override = NoValue
    /\ header = <<>>
    /\ cols = <<>>
    /\ target = 0

FindOrAppendRow ==
    /\ pc = "find_call"
    /\ LET res == find_or_append_row(sheet, 1, start_row, invoice)
       IN  target' = res.r /\ sheet' = res.ws
    /\ pc' = "find_returned"
    /\ UNCHANGED <<start_row, invoice, pl_row_dict, asi_desc, dest_override,
                   header, cols, logged>>
    /\ UNCHANGED notGridVars

(***************************************************************************)
(* Header Column Mapper: build_header_map_and_get_cols (lines 44-96).      *)
(* A header text is the sequence of its pieces: maximal chunks of letters, *)
(* digits and "#", and the separators between them.  A normalized key and  *)
(* an alias are sequences of lower-case chunks, read as joined by single   *)
(* blanks.                                                                 *)
(***************************************************************************)
Separators == {" ", ".", "-", ":"}

\* str.lower() on the chunks the bounded headers use
LowerWord(w) ==
    CASE w = "Invoice" -> "invoice"   [] w = "INVOICE" -> "invoice"
      [] w = "Number" -> "number"     [] w = "No" -> "no"
      [] w = "Date" -> "date"         [] w = "DATE" -> "date"
      [] w = "PO" -> "po"             [] w = "Po" -> "po"
      [] w = "PO#" -> "po#"           [] w = "Purchase" -> "purchase"
      [] w = "Order" -> "order"       [] w = "Ref" -> "ref"
      [] w = "Reference" -> "reference"
      [] w = "Item" -> "item"         [] w = "Seq" -> "seq"
      [] w = "Material" -> "material" [] w = "Desc" -> "desc"
      [] w = "Description" -> "description"
      [] w = "Short" -> "short"       [] w = "Product" -> "product"
      [] w = "Customer" -> "customer" [] w = "Ship" -> "ship"
      [] w = "To" -> "to"             [] w = "Plant" -> "plant"
      [] w = "Total" -> "total"       [] w = "Gross" -> "gross"
      [] w = "Kgs" -> "kgs"           [] w = "Cartons" -> "cartons"
      [] w = "Units" -> "units"       [] w = "Marks" -> "marks"
      [] w = "Dest" -> "dest"         [] w = "DEST" -> "dest"
      [] w = "Destination" -> "destination"
      [] OTHER -> w

\* header_key(s): re.sub(r"[^a-z0-9#]+", " ", str(s).lower()).strip():
\* every separator run becomes one blank, the ends are trimmed
header_key(s) ==
    LET chunks == SelectSeq(s, LAMBDA p : p \notin Separators)
    IN  [i \in 1..Len(chunks) |-> LowerWord(chunks[i])]

CellValue(ws, r, c) ==
    IF r \in 1..Len(ws) /\ c \in 1..Len(ws[r]) THEN ws[r][c] ELSE NoValue

\* `raw is not None and str(raw).strip() != ""`
HasHeaderText(raw) == raw # NoValue /\ Strip(raw) # <<>>

\* lines 53-57: header[self.header_key(raw)] = c for c = 1..max_column in
\* turn, so a later column replaces an earlier one under the same key
HeaderOf(ws, hrow) ==
    LET used == {c \in 1..Width(ws) : HasHeaderText(CellValue(ws, hrow, c))}
        keys == {header_key(CellValue(ws, hrow, c)) : c \in used}
    IN  [k \in keys |->
            CHOOSE c \in used :
                /\ header_key(CellValue(ws, hrow, c)) = k
                /\ \A d \in used : header_key(CellValue(ws, hrow, d)) = k => d <= c]

\* pick(*aliases): the column of the first alias the header has; None,
\* written 0, when it has none
pick(hmap, aliases) ==
    LET hits == {i \in 1..Len(aliases) : aliases[i] \in DOMAIN hmap}
    IN  IF hits = {} THEN 0 ELSE hmap[aliases[Min(hits)]]

\* lines 65-92: the fields in declaration order, each with its alias list
\* and its default column
Fields ==
    << [key |-> "inv", default |-> 1,
        aliases |-> << <<"invoice", "number">>, <<"invoice", "no">>, <<"invoice">> >>],
       [key |-> "date", default |-> 2, aliases |-> << <<"date">> >>],
       [key |-> "po", default |-> 3,
        aliases |-> << <<"po">>, <<"po#">>, <<"purchase", "order">>,
                       <<"purchase", "order", "#">> >>],
       [key |-> "refpo", default |-> 4,
        aliases |-> << <<"reference", "po#">>, <<"reference", "po", "#">>,
                       <<"reference", "po">>, <<"po#", "reference">> >>],
       [key |-> "itemseq", default |-> 5,
        aliases |-> << <<"item", "seq">>, <<"item", "seq.">>, <<"item">>, <<"seq">> >>],
       [key |-> "material", default |-> 6, aliases |-> << <<"material">> >>],
       [key |-> "desc", default |-> 7,
        aliases |-> << <<"desc">>, <<"description", "short">>, <<"product", "desc">> >>],
       [key |-> "custship", default |-> 8,
        aliases |-> << <<"customer", "ship", "to", "#">>, <<"customer", "ship", "to">>,
                       <<"ship", "to", "#">> >>],
       [key |-> "plant", default |-> 9, aliases |-> << <<"plant">> >>],
       [key |-> "gross", default |-> 10,
        aliases |-> << <<"total", "gross", "kgs">>, <<"gross", "kgs">> >>],
       [key |-> "cartons", default |-> 11,
        aliases |-> << <<"total", "cartons">>, <<"cartons">> >>],
       [key |-> "units", default |-> 12,
        aliases |-> << <<"total", "units">>, <<"units">> >>],
       [key |-> "marks", default |-> 13, aliases |-> << <<"marks">> >>],
       [key |-> "description", default |-> 14, aliases |-> << <<"description">> >>],
       [key |-> "dest", default |-> 15,
        aliases |-> << <<"dest">>, <<"destination">> >>] >>

FieldKeys == {Fields[i].key : i \in 1..Len(Fields)}
FieldOf(k) == Fields[CHOOSE i \in 1..Len(Fields) : Fields[i].key = k]

\* an ensure that leaves a column that was not found as it is
ensure_Keep(v, default_idx) == v

\* ensure(name, default_idx): the default replaces a column that was not found
ensure(v, default_idx) == IF v < 1 THEN default_idx ELSE v

\* build_header_map_and_get_cols(ws, header_row)
\* lines 65-94: the fifteen columns picked from the header map
GetCols(hmap) ==
    [k \in FieldKeys |-> ensure(pick(hmap, FieldOf(k).aliases), FieldOf(k).default)]

build_header_map_and_get_cols(ws, hrow) == GetCols(HeaderOf(ws, hrow))

\* dict.get(k): None when the key is absent
Get(d, k) == IF k \in DOMAIN d THEN d[k] ELSE NoValue

\* setc(colkey, val): `if val not in (None, ""): ws.cell(r, cols[colkey]).value = val`
setc_writes(val) == val # NoValue /\ val # <<>>
setc(ws, r, c, val) == IF setc_writes(val) THEN SetCell(ws, r, c, val) ELSE ws

\* lines 124-135: the twelve packing-list fields in the order they are written
PLColumns ==
    << <<"date", "Date">>, <<"po", "PO">>, <<"refpo", "Reference PO#">>,
       <<"itemseq", "Item Seq.">>, <<"material", "Material">>, <<"desc", "Desc">>,
       <<"custship", "Customer Ship To #">>, <<"plant", "Plant">>,
       <<"gross", "Total Gross Kgs">>, <<"cartons", "Total Cartons">>,
       <<"units", "Total Units">>, <<"marks", "Marks">> >>

Truthy(v) == v # NoValue /\ v # <<>>

\* lines 123-135: the setc calls on the packing-list fields, in order, as
\* pairs <<column, value>>
PLWrites(cmap, pl) ==
    [i \in 1..Len(PLColumns) |-> <<cmap[PLColumns[i][1]], Get(pl, PLColumns[i][2])>>]

\* lines 137-141: dest_override, else the packing list's DEST, set when truthy
DestWrite(cmap, pl, override) ==
    <<cmap["dest"], IF Truthy(override) THEN override ELSE Get(pl, "DEST")>>

\* lines 143-145: the ASI description, set when truthy
DescriptionWrite(cmap, asi) == <<cmap["description"], asi>>

\* the setc calls of `writes` on row r in turn: a call with None or "" writes
\* nothing, and the last value written to a cell is the one it keeps
SetAll(ws, r, writes) ==
    LET eff == {i \in 1..Len(writes) : setc_writes(writes[i][2])}
        grown == IF r <= Len(ws) THEN ws
                 ELSE ws \o [i \in 1..(r - Len(ws)) |-> EmptyRow(Width(ws))]
    IN  IF eff = {} THEN ws
        ELSE [grown EXCEPT ![r] =
                [c \in 1..Len(grown[r]) |->
                    LET hits == {i \in eff : writes[i][1] = c}
                    IN  IF hits = {} THEN grown[r][c]
                        ELSE writes[CHOOSE i \in hits : \A j \in hits : j <= i][2]]]

\* fill_excel_row(ws, cols, start_row, inv, pl_row_dict, asi_desc,
\* dest_override): the row returned and the worksheet after the call
fill_excel_row(ws, cmap, start, inv, pl, asi, override) ==
    LET found == find_or_append_row(ws, cmap["inv"], start, inv)
        writes == PLWrites(cmap, pl)
                     \o << DestWrite(cmap, pl, override),
                           DescriptionWrite(cmap, asi) >>
    IN  [r |-> found.r, ws |-> SetAll(found.ws, found.r, writes)]

\* process_nike_data(template_path, invoice_data, output_path, sheet_name,
\* start_row) on a workbook whose only sheet is "Data": the pair returned,
\* the worksheet object at the end and whether the output file was saved
process_nike_data(ws, inv, pl, asi, sheet_name, start) ==
    IF sheet_name # "Data"
    THEN [ok |-> FALSE, ws |-> ws, saved |-> FALSE, r |-> 0,
          cols |-> <<>>, handle |-> "open"]
    ELSE LET cmap == build_header_map_and_get_cols(ws, start - 1)
             filled == fill_excel_row(ws, cmap, start, inv, pl, asi, NoValue)
         IN  [ok |-> TRUE, ws |-> filled.ws, saved |-> TRUE, r |-> filled.r,
              cols |-> cmap, handle |-> "closed"]

(***************************************************************************)
(* The row-append workflow as calls on a bounded "Data" sheet: row 1 is    *)
(* the header row, the data rows start at row 2.                           *)
(***************************************************************************)
\* data rows of the bounded sheet
MaxDataRows == 2
\* header cells that may hold a text
HeaderCols == 3
\* columns of the sheet
SheetWidth == 15

RowHeaderTexts == {NoValue, <<"Dest">>, <<"Invoice">>}
FullRow(v) == [c \in 1..SheetWidth |-> v]
DataRows == {EmptyRow(SheetWidth), FullRow(<<"A", "1">>), FullRow(<<"B">>)}

HeaderRows(texts) ==
    {[c \in 1..SheetWidth |-> IF c <= HeaderCols THEN h[c] ELSE NoValue] :
        h \in [1..HeaderCols -> texts]}

DataSheets ==
    {<<h>> \o d : h \in HeaderRows(RowHeaderTexts),
                  d \in UNION {[1..n -> DataRows] : n \in 0..MaxDataRows}}

\* records with some of the fields Date and DEST, each empty or "x"
RowDicts ==
    UNION {[K -> {<<>>, <<"x">>}] : K \in SUBSET {"Date", "DEST"}}

RowInit ==
    /\ sheet \in DataSheets
    /\ start_row = 2
    /\ invoice \in {<<"A", "1">>, <<"a", "1", " ">>}
    /\ pl_row_dict \in RowDicts
    /\ asi_desc \in {<<>>, <<"C", "A", "P">>}
    /\ dest_override \in {NoValue, <<"y">>}
    /\ header = <<>>
    /\ cols = <<>>
    /\ target = 0

\* fill_excel_row with the header map of the sheet
FillExcelRow ==
    /\ pc = "row_call"
    /\ LET cmap == build_header_map_and_get_cols(sheet, start_row - 1)
           res == fill_excel_row(sheet, cmap, start_row, invoice, pl_row_dict,
                                 asi_desc, dest_override)
       IN  /\ header' = HeaderOf(sheet, start_row - 1)
           /\ cols' = cmap
           /\ sheet' = res.ws
           /\ target' = res.r
    /\ op' = [NoOp EXCEPT !.name = "fill_excel_row"]
    /\ ret' = [NoRet EXCEPT !.ok = TRUE]
    /\ pc' = "row_returned"
    /\ UNCHANGED <<start_row, invoice, pl_row_dict, asi_desc, dest_override,
                   logged>>
    /\ UNCHANGED <<mgr, template, data_dict, wb, output, placeholders, remaining,
                   handle>>
    /\ UNCHANGED notGridFillVars

\* process_nike_data on the workbook whose sheet "Data" is `sheet`; it calls
\* fill_excel_row without a dest_override
ProcessNikeData ==
    /\ pc = "row_call"
    /\ dest_override = NoValue
    /\ \E sn \in {"Data", "Missing"} :
         LET res == process_nike_data(sheet, invoice, pl_row_dict, asi_desc, sn,
                                      start_row)
         IN  /\ header' = IF res.ok THEN HeaderOf(sheet, start_row - 1) ELSE header
             /\ cols' = res.cols
             /\ sheet' = res.ws
             /\ target' = res.r
             /\ op' = [NoOp EXCEPT !.name = "process_nike_data", !.sheet_name = sn]
             /\ ret' = [NoRet EXCEPT !.ok = res.ok]
             /\ output' = [exists |-> res.saved,
                           book |-> IF res.saved
                                    THEN [sheetnames |-> <<"Data">>,
                                          ws |-> [s \in {"Data"} |-> res.ws]]
                                    ELSE EmptyWb]
             /\ handle' = res.handle
             /\ logged' = ~res.ok
    /\ pc' = "row_returned"
    /\ UNCHANGED <<start_row, invoice, pl_row_dict, asi_desc, dest_override>>
    /\ UNCHANGED <<mgr, template, data_dict, wb, placeholders, remaining>>
    /\ UNCHANGED notGridFillVars

(***************************************************************************)
(* build_header_map_and_get_cols as a call on a bounded header row.        *)
(***************************************************************************)
\* columns of the bounded header rows
MaxCols == 2

\* header texts: one for every alias, other spellings, a blank text, a
\* text of separators only, and the empty cell
HeaderTexts ==
    { NoValue, <<" ">>, <<"-">>,
      <<"Invoice", " ", "Number">>, <<"Invoice", " ", "No">>, <<"Invoice">>,
      <<"INVOICE">>, <<"Date">>,
      <<"PO">>, <<"PO#">>, <<"Purchase", " ", "Order">>,
      <<"Purchase", " ", "Order", " ", "#">>,
      <<"Reference", " ", "PO#">>, <<"Reference", " ", "PO", " ", "#">>,
      <<"Reference", " ", "PO">>, <<"PO#", " ", "Reference">>, <<"Ref", " ", "PO">>,
      <<"Item", " ", "Seq">>, <<"Item", " ", "Seq", ".">>, <<"Item">>, <<"Seq">>,
      <<"Material">>,
      <<"Desc">>, <<"Description", " ", "Short">>, <<"Product", " ", "Desc">>,
      <<"Customer", " ", "Ship", " ", "To", " ", "#">>,
      <<"Customer", " ", "Ship", " ", "To">>, <<"Ship", " ", "To", " ", "#">>,
      <<"Ship", " ", "To">>,
      <<"Plant">>,
      <<"Total", " ", "Gross", " ", "Kgs">>, <<"Gross", " ", "Kgs">>, <<"Gross">>,
      <<"Total", " ", "Cartons">>, <<"Cartons">>,
      <<"Total", " ", "Units">>, <<"Units">>,
      <<"Marks">>, <<"Description">>, <<"Dest">>, <<"Destination">> }

\* a header row with fifteen labelled columns, "PO#" in column 3
ExampleHeader ==
    << <<"Invoice">>, <<"Date">>, <<"PO#">>, <<"Ref", " ", "PO">>, <<"Item">>,
       <<"Material">>, <<"Desc">>, <<"Ship", " ", "To">>, <<"Plant">>, <<"Gross">>,
       <<"Cartons">>, <<"Units">>, <<"Marks">>, <<"Description">>, <<"Dest">> >>

\* the same row without its "Plant" column
ExampleHeaderNoPlant ==
    [c \in 1..14 |-> IF c < 9 THEN ExampleHeader[c] ELSE ExampleHeader[c + 1]]

HeaderInit ==
    /\ sheet \in {<<h>> : h \in UNION {[1..n -> HeaderTexts] : n \in 1..MaxCols}}
                   \cup {<<ExampleHeader>>, <<ExampleHeaderNoPlant>>}
    /\ start_row = 2
    /\ invoice = <<>>
    /\ pl_row_dict = <<>>
    /\ asi_desc = <<>>
    /\ dest_override = NoValue
    /\ header = <<>>
    /\ cols = <<>>
    /\ target = 0

BuildHeaderMapAndGetCols ==
    /\ pc = "header_call"
    /\ header' = HeaderOf(sheet, start_row - 1)
    /\ cols' = build_header_map_and_get_cols(sheet, start_row - 1)
    /\ pc' = "header_returned"
    /\ UNCHANGED <<sheet, start_row, invoice, pl_row_dict, asi_desc,
                   dest_override, target, logged>>
    /\ UNCHANGED notGridVars

(***************************************************************************)
(* group_lines (pdf_processor_nike.py 42-58, the same code in              *)
(* pdf_processor.py 42-58).  A token is a record of its top, counted in    *)
(* halves of a unit so that tops ending in .5 exist, and its left x.       *)
(***************************************************************************)
\* round(w["top"]) of a top of h halves: Python rounds a tie to the even
\* neighbour
Round(h) ==
    IF h % 2 = 0 THEN h \div 2
    ELSE LET n == (h - 1) \div 2 IN IF n % 2 = 0 THEN n ELSE n + 1

Abs(n) == IF n < 0 THEN 0 - n ELSE n

\* sorted(s, key=...): the stable sort of s under the strict order Less of
\* the keys
Sorted(s, Less(_, _)) ==
    LET rank(i) == Cardinality({j \in 1..Len(s) :
                       \/ Less(s[j], s[i])
                       \/ (~Less(s[i], s[j]) /\ j < i)}) + 1
    IN  [p \in 1..Len(s) |-> s[CHOOSE i \in 1..Len(s) : rank(i) = p]]

\* key=lambda w: (round(w["top"]), w["x0"])
ByTopThenX(a, b) ==
    \/ Round(a.top) < Round(b.top)
    \/ (Round(a.top) = Round(b.top) /\ a.x0 < b.x0)

\* key=lambda t: t["x0"]
ByX(a, b) == a.x0 < b.x0

\* a flush that forgets the open line
Flush_Drop(done, cur) == done

\* lines.append(sorted(cur, key=lambda t: t["x0"]))
Flush(done, cur) == Append(done, Sorted(cur, ByX))

\* the loop of lines 48-55 from token i on; cur_y is None while cur is empty
RECURSIVE GroupFrom(_, _, _, _, _, _)
GroupFrom(toks, tol, i, done, cur, cur_y) ==
    IF i > Len(toks)
    THEN (IF cur # <<>> THEN Flush(done, cur) ELSE done)
    ELSE LET y == Round(toks[i].top)
         IN  IF cur = <<>> \/ Abs(y - cur_y) <= tol
             THEN GroupFrom(toks, tol, i + 1, done, Append(cur, toks[i]),
                            IF cur = <<>> THEN y ELSE cur_y)
             ELSE GroupFrom(toks, tol, i + 1, Flush(done, cur), <<toks[i]>>, y)

\* group_lines(words, tol=3)
group_lines(toks, tol) ==
    IF toks = <<>> THEN <<>>
    ELSE GroupFrom(Sorted(toks, ByTopThenX), tol, 1, <<>>, <<>>, 0)

\* tokens of a bounded page
MaxTokens == 3
\* tops of the bounded tokens in halves: 0, 0.5, 1.5, 3, 4 and 6
Tops == {0, 1, 3, 6, 8, 12}
Lefts == {10, 20}
Tokens == [top : Tops, x0 : Lefts]

GroupInit ==
    /\ words \in SeqsUpTo(Tokens, MaxTokens)
    /\ lines = <<>>
    /\ candidate = <<>>
    /\ cleaned = <<>>

GroupLines ==
    /\ pc = "lines_call"
    /\ lines' = group_lines(words, 3)
    /\ pc' = "lines_returned"
    /\ UNCHANGED <<words, candidate, cleaned, logged>>
    /\ UNCHANGED notTextVars

(***************************************************************************)
(* _clean_desc (pdf_processor_nike.py 256-267, the same code in            *)
(* pdf_processor.py 251-261).  A description is a sequence of              *)
(* one-character strings.                                                  *)
(***************************************************************************)
DigitChars == {"0", "1", "2", "3", "4", "5", "6", "7", "8", "9"}
IsCapital(c) == \E i \in 1..Len(Capitals) : Capitals[i] = c

\* \w
IsWordChar(c) == c \in DigitChars \/ UpperChar(c) # c \/ IsCapital(c) \/ c = "_"

\* norm(s) on a text of characters: re.sub(r"\s+", " ", (s or "").strip())
norm_chars(d) == CollapseBlanks(Strip(d))

\* first position from i on that does not hold a character of the class
RunEnd(d, i, InClass(_)) ==
    Min({j \in i..(Len(d) + 1) : j = Len(d) + 1 \/ ~InClass(d[j])})

\* the position after a match of \b\d+[A-Z]*\b starting at i, or 0: the
\* digits and the capitals after them are taken to their end, and no
\* shorter take ends on a word boundary
QuantityEnd(d, i) ==
    IF /\ d[i] \in DigitChars
       /\ (i = 1 \/ ~IsWordChar(d[i - 1]))
    THEN LET j == RunEnd(d, RunEnd(d, i, LAMBDA c : c \in DigitChars), IsCapital)
         IN  IF j = Len(d) + 1 \/ ~IsWordChar(d[j]) THEN j ELSE 0
    ELSE 0

\* re.sub(r"\b\d+[A-Z]*\b", "", d) from position i on
RECURSIVE RemoveQuantitiesFrom(_, _)
RemoveQuantitiesFrom(d, i) ==
    IF i > Len(d) THEN <<>>
    ELSE IF QuantityEnd(d, i) # 0 THEN RemoveQuantitiesFrom(d, QuantityEnd(d, i))
    ELSE <<d[i]>> \o RemoveQuantitiesFrom(d, i + 1)

\* re.sub(r"[^A-Z ]", " ", d)
BlankOthers(d) == [i \in 1..Len(d) |-> IF IsCapital(d[i]) \/ d[i] = " " THEN d[i] ELSE " "]

\* lines 258-261: the text the vocabulary is looked up in
CleanText(d) ==
    LET up == [i \in 1..Len(norm_chars(d)) |-> UpperChar(norm_chars(d)[i])]
    IN  Strip(CollapseBlanks(BlankOthers(RemoveQuantitiesFrom(up, 1))))

SKULL_CAP == <<"S", "K", "U", "L", "L", " ", "C", "A", "P">>
SCULL_CAP == <<"S", "C", "U", "L", "L", " ", "C", "A", "P">>
HAT == <<"H", "A", "T">>
CAP == <<"C", "A", "P">>
BEANIE == <<"B", "E", "A", "N", "I", "E">>

\* the tuple of line 264, in the order it is gone through
ProductTypes == <<SKULL_CAP, HAT, CAP, BEANIE, SCULL_CAP>>

\* `k in d`
Contains(d, k) == \E i \in 1..Len(d) : PhraseAt(d, i, k)

\* _clean_desc(d)
_clean_desc(d) ==
    LET t == CleanText(d)
        hits == {i \in 1..Len(ProductTypes) : Contains(t, ProductTypes[i])}
    IN  IF hits = {} THEN t
        ELSE LET k == ProductTypes[Min(hits)]
             IN  IF k = SCULL_CAP THEN SKULL_CAP ELSE k

\* words of a bounded candidate
MaxWords == 3

DescWords ==
    { <<"S", "K", "U", "L", "L">>, <<"S", "C", "U", "L", "L">>, CAP, HAT, BEANIE,
      <<"K", "N", "I", "T">>, <<"c", "a", "p">>, <<"1", "2">>, <<"6", "P", "K">>,
      <<"&">> }

\* the words of ws joined by single blanks
RECURSIVE JoinWords(_)
JoinWords(ws) ==
    IF ws = <<>> THEN <<>>
    ELSE IF Len(ws) = 1 THEN ws[1]
    ELSE ws[1] \o <<" ">> \o JoinWords(Tail(ws))

Candidates == {JoinWords(ws) : ws \in SeqsUpTo(DescWords, MaxWords)}

CleanInit ==
    /\ words = <<>>
    /\ lines = <<>>
    /\ candidate \in Candidates
    /\ cleaned = <<>>

CleanDesc ==
    /\ pc = "desc_call"
    /\ cleaned' = _clean_desc(candidate)
    /\ pc' = "desc_returned"
    /\ UNCHANGED <<words, lines, candidate, logged>>
    /\ UNCHANGED notTextVars

(***************************************************************************)
(* Description Resolver: extract_asi_desc_from_pdf (pdf_processor_nike.py  *)
(* 269-304, the same code in extract_asi_description, pdf_processor.py     *)
(* 263-301).  The document is given by the descriptions its patterns       *)
(* match, in discovery order.                                              *)
(***************************************************************************)
\* a priority list with its first two entries exchanged
priority_Swapped == <<HAT, SKULL_CAP, CAP>>

\* line 299
priority == <<SKULL_CAP, HAT, CAP>>

\* key=lambda s: priority.index(s) if s in priority else 99
PriorityKey(d) ==
    IF \E i \in 1..Len(priority) : priority[i] = d
    THEN (CHOOSE i \in 1..Len(priority) : priority[i] = d) - 1
    ELSE 99

ByPriority(a, b) == PriorityKey(a) < PriorityKey(b)

\* the orders in which iterating the set S can yield its members: the order
\* of a set of strings follows their hashes, which change from one
\* interpreter run to the next
IterationOrders(S) ==
    {o \in [1..Cardinality(S) -> S] : \A d \in S : \E i \in DOMAIN o : o[i] = d}

\* lines 298-302 with the set iterated in the order o
SelectDesc(o) == IF o = <<>> THEN <<>> ELSE Sorted(o, ByPriority)[1]

\* lines 281-287: the cleaned descriptions of the first n matches
CleanedOf(caps, n) == {_clean_desc(caps[i]) : i \in 1..n}

\* matches of a bounded document
MaxCaptures == 3

RawDescs ==
    { SKULL_CAP, HAT, <<"C", "A", "P", " ", "1", "2">>, BEANIE,
      <<"K", "N", "I", "T">>, <<"K", "N", "I", "T", " ", "6", "P", "K">>,
      <<"G", "L", "O", "V", "E">> }

ResolveInit ==
    /\ captures \in SeqsUpTo(RawDescs, MaxCaptures)
    /\ descs = {}
    /\ desc = <<>>
    /\ desc_rerun = <<>>

\* extract_asi_desc_from_pdf on a document that is read to its end
ExtractAsiDesc ==
    /\ pc = "asi_call"
    /\ descs' = CleanedOf(captures, Len(captures))
    /\ \E o \in IterationOrders(descs') : desc' = SelectDesc(o)
    /\ pc' = "asi_returned"
    /\ UNCHANGED <<captures, desc_rerun, logged>>
    /\ UNCHANGED notDescVars

\* the same call when opening or reading the document raises after n
\* matches: the except of line 294 logs, and the selection goes on
ExtractAsiDescFails ==
    /\ pc = "asi_call"
    /\ \E n \in 0..Len(captures) :
         /\ descs' = CleanedOf(captures, n)
         /\ \E o \in IterationOrders(descs') : desc' = SelectDesc(o)
    /\ logged' = TRUE
    /\ pc' = "asi_returned"
    /\ UNCHANGED <<captures, desc_rerun>>
    /\ UNCHANGED notDescVars

\* a second run on the same document, which finds the same set
ExtractAsiDescAgain ==
    /\ pc = "asi_returned"
    /\ \E o \in IterationOrders(descs) : desc_rerun' = SelectDesc(o)
    /\ pc' = "asi_rerun"
    /\ UNCHANGED <<captures, descs, desc, logged>>
    /\ UNCHANGED notDescVars

(***************************************************************************)
(* extract_marks_by_words (pdf_processor_nike.py 66-123, the same code in  *)
(* pdf_processor.py 66-122).  A word is a record of its text, a sequence   *)
(* of one-character strings, its top in halves of a unit and its left x.   *)
(* Line indices count from 0 as in the source.                             *)
(***************************************************************************)
\* None as an index
NoIndex == -1

Max(S) == CHOOSE x \in S : \A y \in S : x >= y

\* linetxt(line_words), lines 61-63
RECURSIVE linetxt(_)
linetxt(line_words) ==
    IF line_words = <<>> THEN <<>>
    ELSE IF Len(line_words) = 1 THEN line_words[1].text
    ELSE line_words[1].text \o <<" ">> \o linetxt(Tail(line_words))

\* the literal `lit`, given in lower case, stands at position i of t,
\* whatever the case of the letters of t
LitAt(t, i, lit) ==
    /\ i >= 1
    /\ i + Len(lit) - 1 <= Len(t)
    /\ \A j \in 1..Len(lit) : LowerChar(t[i + j - 1]) = lit[j]

\* \b before position i of t
BoundaryAt(t, i) ==
    (i > 1 /\ i - 1 <= Len(t) /\ IsWordChar(t[i - 1]))
        # (i <= Len(t) /\ IsWordChar(t[i]))

IsBlankChar(c) == c = " "
IsLetter(c) == UpperChar(c) # c \/ IsCapital(c)

\* the position after a match of Country\s+Of\s+Origin that starts at i, or 0
CountryOfOriginEnd(t, i) ==
    IF LitAt(t, i, <<"c", "o", "u", "n", "t", "r", "y">>) /\ LitAt(t, i + 7, <<" ">>)
    THEN LET j == RunEnd(t, i + 7, IsBlankChar)
         IN  IF LitAt(t, j, <<"o", "f">>) /\ LitAt(t, j + 2, <<" ">>)
             THEN LET k == RunEnd(t, j + 2, IsBlankChar)
                  IN  IF LitAt(t, k, <<"o", "r", "i", "g", "i", "n">>) THEN k + 6 ELSE 0
             ELSE 0
    ELSE 0

\* re.search(r"\bCountry\s+Of\s+Origin\b", t, re.IGNORECASE)
HasCountryOfOrigin(t) ==
    \E i \in 1..Len(t) :
        /\ BoundaryAt(t, i)
        /\ CountryOfOriginEnd(t, i) # 0
        /\ BoundaryAt(t, CountryOfOriginEnd(t, i))

\* re.search(r"Country|Of|Origin", w["text"], re.I)
IsAnchorWord(w) ==
    \E i \in 1..Len(w.text) :
        \/ LitAt(w.text, i, <<"c", "o", "u", "n", "t", "r", "y">>)
        \/ LitAt(w.text, i, <<"o", "f">>)
        \/ LitAt(w.text, i, <<"o", "r", "i", "g", "i", "n">>)

\* re.search(r"\bNOCAB\b|\bMARKS?\b", t, re.IGNORECASE)
HasMarksWord(t) ==
    \E i \in 1..Len(t) :
        /\ BoundaryAt(t, i)
        /\ \/ LitAt(t, i, <<"n", "o", "c", "a", "b">>) /\ BoundaryAt(t, i + 5)
           \/ LitAt(t, i, <<"m", "a", "r", "k", "s">>) /\ BoundaryAt(t, i + 5)
           \/ LitAt(t, i, <<"m", "a", "r", "k">>) /\ BoundaryAt(t, i + 4)

\* lines 76-87: the left edge of the right column, in tenths so that
\* page.width * 0.70 is a whole number
x_left(lns, width) ==
    LET hits == {i \in 1..Len(lns) : HasCountryOfOrigin(linetxt(lns[i]))}
    IN  IF hits = {} THEN width * 7
        ELSE LET line == lns[Min(hits)]
             IN  (Min({line[j].x0 : j \in {n \in 1..Len(line) : IsAnchorWord(line[n])}}) - 6) * 10

\* lines 89-94: the texts of the lines that have words in the right column
RightTexts(lns, xl) ==
    LET right_words(line) == SelectSeq(line, LAMBDA w : w.x0 * 10 >= xl)
        kept == SelectSeq(lns, LAMBDA line : right_words(line) # <<>>)
    IN  [i \in 1..Len(kept) |-> linetxt(right_words(kept[i]))]

\* line 100: the first right-column line that holds the anchor
CooIndex(txts) ==
    LET hits == {i \in 0..(Len(txts) - 1) : HasCountryOfOrigin(txts[i + 1])}
    IN  IF hits = {} THEN NoIndex ELSE Min(hits)

\* `r_coo_idx or len(texts)`: None and 0 are both false
OrLen(a, n) == IF a = NoIndex \/ a = 0 THEN n ELSE a

\* lines 101-107: the first line of the window
WindowStart(txts, a) ==
    LET n == Len(txts)
        dflt == IF a # NoIndex /\ a - 3 > 0 THEN a - 3 ELSE 0
        from == OrLen(a, n) - 1
        stop == IF OrLen(a, n) - 6 > -1 THEN OrLen(a, n) - 6 ELSE -1
        hits == {k \in 0..from : k > stop /\ HasMarksWord(txts[k + 1])}
    IN  IF hits = {} THEN dflt ELSE Max(hits)

\* lines 109-110: the last line of the window
WindowEnd(txts, a, start) ==
    LET n == Len(txts)
        e == IF a # NoIndex /\ a + 1 < n THEN a + 1
             ELSE IF a # NoIndex /\ a # 0 THEN a ELSE start + 2
    IN  IF e < n - 1 THEN e ELSE n - 1

\* line 111: norm(" ".join(texts[r_start:r_end + 1]))
RECURSIVE JoinTexts(_)
JoinTexts(txts) ==
    IF txts = <<>> THEN <<>>
    ELSE IF Len(txts) = 1 THEN txts[1]
    ELSE txts[1] \o <<" ">> \o JoinTexts(Tail(txts))

Picked(txts, start, end) == norm_chars(JoinTexts(SubSeq(txts, start + 1, end + 1)))

IsLetterOrBlank(c) == IsLetter(c) \/ c = " "

\* the position after a match of Country\s+Of\s+Origin\s*:\s*[A-Za-z ]+ that
\* starts at i, or 0: the letters and blanks after the colon are taken to
\* their end
OriginValueEnd(t, i) ==
    IF CountryOfOriginEnd(t, i) = 0 THEN 0
    ELSE LET c == RunEnd(t, CountryOfOriginEnd(t, i), IsBlankChar)
         IN  IF c <= Len(t) /\ t[c] = ":" /\ c + 1 <= Len(t) /\ IsLetterOrBlank(t[c + 1])
             THEN RunEnd(t, c + 1, IsLetterOrBlank)
             ELSE 0

\* line 114: group 1 of (.*?Country\s+Of\s+Origin\s*:\s*[A-Za-z ]+), or NoValue
OriginPrefix(t) ==
    LET hits == {i \in 1..Len(t) : OriginValueEnd(t, i) # 0}
    IN  IF hits = {} THEN NoValue ELSE SubSeq(t, 1, OriginValueEnd(t, Min(hits)) - 1)

IsCodeStart(c) == IsLetter(c) \/ c \in DigitChars
IsCodeChar(c) == IsCodeStart(c) \/ c \in {"-", "/", "#", " "}

\* RE_MARKS_CODE.search(t), line 119: the first match of
\* [A-Z0-9][A-Z0-9\-/# ]{5,}, or NoValue
MarksCode(t) ==
    LET hits == {i \in 1..Len(t) : IsCodeStart(t[i]) /\ RunEnd(t, i + 1, IsCodeChar) - i >= 6}
    IN  IF hits = {} THEN NoValue
        ELSE SubSeq(t, Min(hits), RunEnd(t, Min(hits) + 1, IsCodeChar) - 1)

\* a result that tries the code pattern before the anchor pattern
Result_CodeFirst(p) ==
    IF MarksCode(p) # NoValue THEN norm_chars(MarksCode(p))
    ELSE IF OriginPrefix(p) # NoValue THEN norm_chars(OriginPrefix(p))
    ELSE p

\* lines 113-123: what is returned for the window text
Result(p) ==
    IF OriginPrefix(p) # NoValue THEN norm_chars(OriginPrefix(p))
    ELSE IF MarksCode(p) # NoValue THEN norm_chars(MarksCode(p))
    ELSE p

\* ---- bounded pages
\* lines of a page of the three kinds that decide the window
MaxLines == 7
\* lines of a page of any kind
MaxMixedLines == 3

PageWidth == 600

Chars_Country == <<"C", "o", "u", "n", "t", "r", "y">>
Chars_Of == <<"O", "f">>
Chars_Origin == <<"O", "r", "i", "g", "i", "n">>
Chars_Vietnam == <<"V", "i", "e", "t", "n", "a", "m">>
Chars_MARKS == <<"M", "A", "R", "K", "S">>
Chars_AB == <<"A", "B">>
Chars_Code == <<"N", "K", "-", "1", "2", "/", "3">>
Chars_Qty == <<"Q", "t", "y">>
Chars_Dots == <<".", ".">>

\* the words of a line of kind k whose top is `top`
LineWords(k, top) ==
    LET w(chars, x) == [text |-> chars, top |-> top, x0 |-> x]
    IN  CASE k = "anchor" -> <<w(Chars_Country, 430), w(Chars_Of, 470),
                               w(Chars_Origin, 490), w(<<":">>, 530),
                               w(Chars_Vietnam, 540)>>
          [] k = "marks"  -> <<w(Chars_MARKS, 430)>>
          [] k = "short"  -> <<w(Chars_AB, 430)>>
          [] k = "label"  -> <<w(Chars_Country, 430), w(Chars_Of, 470),
                               w(Chars_Origin, 490)>>
          [] k = "code"   -> <<w(Chars_Qty, 50), w(Chars_Code, 430)>>
          [] k = "dots"   -> <<w(Chars_Dots, 430)>>
          [] k = "left"   -> <<w(Chars_Qty, 50)>>

\* the words of the page whose lines, ten units apart, are of the kinds ks
PageOf(ks) == Flatten([i \in 1..Len(ks) |-> LineWords(ks[i], 20 * i)])

WindowKinds == {"anchor", "marks", "short"}
LineKinds == WindowKinds \cup {"label", "code", "dots", "left"}

Pages_Bounded ==
    {PageOf(ks) : ks \in SeqsUpTo(WindowKinds, MaxLines)}
    \cup {PageOf(ks) : ks \in SeqsUpTo(LineKinds, MaxMixedLines)}

RegionInit ==
    /\ page_words \in Pages_Bounded
    /\ page_width = PageWidth
    /\ right_texts = <<>>
    /\ r_coo_idx = NoIndex
    /\ r_start = 0
    /\ r_end = 0
    /\ picked = <<>>
    /\ region = <<>>

\* extract_marks_by_words(page) on a page whose words were extracted
ExtractMarksByWords ==
    /\ pc = "region_call"
    /\ \E lns \in {group_lines(page_words, 2)} :
       \E xl \in {x_left(lns, page_width)} :
       \E txts \in {RightTexts(lns, xl)} :
       \E a \in {CooIndex(txts)} :
       \E start \in {WindowStart(txts, a)} :
       \E end \in {WindowEnd(txts, a, start)} :
       \E p \in {Picked(txts, start, end)} :
          IF page_words = <<>> \/ txts = <<>>
          THEN /\ right_texts' = txts
               /\ UNCHANGED <<r_coo_idx, r_start, r_end, picked>>
               /\ region' = <<>>
          ELSE /\ right_texts' = txts
               /\ r_coo_idx' = a
               /\ r_start' = start
               /\ r_end' = end
               /\ picked' = p
               /\ region' = Result(p)
    /\ pc' = "region_returned"
    /\ UNCHANGED <<page_words, page_width, logged>>
    /\ UNCHANGED notRegionVars

\* page.extract_words raises (lines 68-71): the words are taken as none and
\* the empty string is returned
ExtractWordsFails ==
    /\ pc = "region_call"
    /\ region' = <<>>
    /\ pc' = "region_failed"
    /\ UNCHANGED <<page_words, page_width, right_texts, r_coo_idx, r_start, r_end,
                   picked, logged>>
    /\ UNCHANGED notRegionVars

\* the region locator is not under way
RegionIdle ==
    /\ page_words = <<>>
    /\ page_width = 0
    /\ right_texts = <<>>
    /\ r_coo_idx = NoIndex
    /\ r_start = 0
    /\ r_end = 0
    /\ picked = <<>>
    /\ region = <<>>

(***************************************************************************)
(* find_or_append_row called again and again on one sheet.                 *)
(***************************************************************************)
\* calls in a row
MaxCalls == 3

\* the rows of the invoice column from the start row down that hold an
\* identifier
FilledRows(ws, start) == {r \in start..max_row(ws) : ~IsEmptyCell(ws[r][1])}

\* no empty cell above a filled one
Dense(ws, start) ==
    \A r \in FilledRows(ws, start) : \A q \in start..r : q \in FilledRows(ws, start)

\* no two rows hold the same normalized identifier
NoDuplicates(ws, start) ==
    \A r \in FilledRows(ws, start) : \A q \in FilledRows(ws, start) :
        inv_key(ws[r][1]) = inv_key(ws[q][1]) => r = q

AppendInit ==
    /\ sheet \in {[r \in 1..Len(f) |-> <<f[r]>>] :
                     f \in UNION {[1..k -> InvoiceCells] : k \in 1..MaxRow}}
    /\ start_row \in 1..(MaxRow + 2)
    /\ Dense(sheet, start_row)
    /\ NoDuplicates(sheet, start_row)
    /\ invoice = <<>>
    /\ pl_row_dict = <<>>
    /\ asi_desc = <<>>
    /\ dest_override = NoValue
    /\ header = <<>>
    /\ cols = <<>>
    /\ target = 0
    /\ given = <<>>
    /\ calls = 0

\* one more call find_or_append_row(ws, 1, start_row, inv) on the sheet as
\* the calls before have left it
FindOrAppendRowAgain ==
    /\ pc = "append_calls"
    /\ calls < MaxCalls
    /\ \E inv \in Invoices \cup {<<"B">>} :
         LET res == find_or_append_row(sheet, 1, start_row, inv)
         IN  /\ invoice' = inv
             /\ target' = res.r
             /\ sheet' = res.ws
             /\ given' = IF inv_key(inv) \in DOMAIN given THEN given
                         ELSE Put(given, inv_key(inv), res.r)
    /\ calls' = calls + 1
    /\ UNCHANGED <<pc, start_row, pl_row_dict, asi_desc, dest_override, header,
                   cols, logged>>
    /\ UNCHANGED <<destVars, parseVars, fillVars, textVars, descVars, regionVars,
                   pathVars>>

\* no sequence of find_or_append_row calls is under way
AppendIdle ==
    /\ given = <<>>
    /\ calls = 0

(***************************************************************************)
(* The output path of NikeTemplateManager.fill_template (lines 192-220) in *)
(* two invocations on the same template and sheet.  An invocation builds   *)
(* its output path from the clock (lines 193-196), then loads, fills and   *)
(* saves the workbook (lines 202-217); the clock ticks in between.         *)
(***************************************************************************)
\* ticks of the clock in one second
TicksPerSecond == 2
\* the last tick of the bounded clock
MaxTicks == 5

Invocations == {1, 2}

\* datetime.now().strftime("%Y%m%d_%H%M%S"): the time cut to whole seconds
strftime(t) == t \div TicksPerSecond

\* lines 193-196: f"{template_name}_{sheet_name}_{timestamp}.xlsx" in the
\* output folder, as the triple of its parts
output_path(name, sheet_name, t) == <<name, sheet_name, strftime(t)>>

PathInit ==
    /\ now = 0
    /\ tpl_name \in {"co", "pl"}
    /\ tpl_sheet \in {"Form", "Data"}
    /\ call_pc = [i \in Invocations |-> "start"]
    /\ call_path = [i \in Invocations |-> None]
    /\ call_data \in [Invocations -> {<<"x">>, <<"y">>}]
    /\ files = <<>>
    /\ saves = <<>>

\* time passes
Tick ==
    /\ pc = "fill_calls"
    /\ now < MaxTicks
    /\ now' = now + 1
    /\ UNCHANGED <<pc, tpl_name, tpl_sheet, call_pc, call_path, call_data, files,
                   saves, logged>>
    /\ UNCHANGED notPathVars

\* lines 193-196 of an invocation: the output path is built
BuildOutputPath ==
    /\ pc = "fill_calls"
    /\ \E i \in Invocations :
         /\ call_pc[i] = "start"
         /\ call_path' = [call_path EXCEPT ![i] = output_path(tpl_name, tpl_sheet, now)]
         /\ call_pc' = [call_pc EXCEPT ![i] = "named"]
    /\ UNCHANGED <<pc, now, tpl_name, tpl_sheet, call_data, files, saves, logged>>
    /\ UNCHANGED notPathVars

\* lines 202-220 of an invocation: the workbook is loaded, filled and saved
\* under the path built, replacing a file that is there
SaveOutput ==
    /\ pc = "fill_calls"
    /\ \E i \in Invocations :
         /\ call_pc[i] = "named"
         /\ files' = Put(files, call_path[i], call_data[i])
         /\ saves' = Append(saves, [by |-> i, path |-> call_path[i]])
         /\ call_pc' = [call_pc EXCEPT ![i] = "returned"]
    /\ UNCHANGED <<pc, now, tpl_name, tpl_sheet, call_path, call_data, logged>>
    /\ UNCHANGED notPathVars

\* no fill_template invocation is under way
PathIdle ==
    /\ now = 0
    /\ tpl_name = None
    /\ tpl_sheet = None
    /\ call_pc = <<>>
    /\ call_path = <<>>
    /\ call_data = <<>>
    /\ files = <<>>
    /\ saves = <<>>

\* the description resolver is not under way
DescIdle ==
    /\ captures = <<>>
    /\ descs = {}
    /\ desc = <<>>
    /\ desc_rerun = <<>>

\* the text helpers are not under way
TextIdle ==
    /\ words = <<>>
    /\ lines = <<>>
    /\ candidate = <<>>
    /\ cleaned = <<>>

ParseIdle ==
    /\ pdf = <<>>
    /\ pageNo = 0
    /\ row = DefaultRow
    /\ refpo_hits = <<>>
    /\ po_hits = <<>>
    /\ data = None

FillIdle ==
    /\ mgr = None
    /\ template = EmptyWb
    /\ data_dict = <<>>
    /\ op = NoOp
    /\ wb = EmptyWb
    /\ output = NoFile
    /\ ret = NoRet
    /\ placeholders = {}
    /\ remaining = {}
    /\ handle = "none"

(***************************************************************************)
(* Specifications.                                                         *)
(***************************************************************************)
InitDest ==
    pc = "dest_call" /\ logged = FALSE /\ DestInit /\ ParseIdle /\ FillIdle /\ GridIdle
    /\ TextIdle
    /\ DescIdle
    /\ RegionIdle
    /\ AppendIdle
    /\ PathIdle

NextDest == DestFromMarks

SpecDest == InitDest /\ [][NextDest]_vars

InitParse ==
    logged = FALSE /\ ParseInit /\ DestIdle /\ FillIdle /\ GridIdle /\ TextIdle
    /\ DescIdle
    /\ RegionIdle
    /\ AppendIdle
    /\ PathIdle

NextParse ==
    \/ OpenPdf
    \/ OpenPdfFails
    \/ ProcessPage
    \/ ReadPageFails
    \/ FinishParse
    \/ ProcessPackingList
    \/ GetInvoiceDataDict

SpecParse == InitParse /\ [][NextParse]_vars

InitFill ==
    pc = "template" /\ logged = FALSE /\ FillInit /\ DestIdle /\ ParseIdle /\ GridIdle
    /\ TextIdle
    /\ DescIdle
    /\ RegionIdle
    /\ AppendIdle
    /\ PathIdle

NextFill ==
    \/ ScanTemplatePlaceholders
    \/ CreateFilledTemplate
    \/ NikeCreateFilledTemplate
    \/ FillTemplate
    \/ ReplacePlaceholdersInSheet
    \/ RescanOutput

SpecFill == InitFill /\ [][NextFill]_vars

InitFind ==
    pc = "find_call" /\ logged = FALSE /\ FindInit /\ DestIdle /\ ParseIdle /\ FillIdle
    /\ TextIdle
    /\ DescIdle
    /\ RegionIdle
    /\ AppendIdle
    /\ PathIdle

NextFind == FindOrAppendRow

SpecFind == InitFind /\ [][NextFind]_vars

InitHeader ==
    pc = "header_call" /\ logged = FALSE /\ HeaderInit /\ DestIdle /\ ParseIdle
    /\ FillIdle /\ TextIdle
    /\ DescIdle
    /\ RegionIdle
    /\ AppendIdle
    /\ PathIdle

NextHeader == BuildHeaderMapAndGetCols

SpecHeader == InitHeader /\ [][NextHeader]_vars

InitGroup ==
    pc = "lines_call" /\ logged = FALSE /\ GroupInit /\ DestIdle /\ ParseIdle
    /\ FillIdle /\ GridIdle
    /\ DescIdle
    /\ RegionIdle
    /\ AppendIdle
    /\ PathIdle

NextGroup == GroupLines

SpecGroup == InitGroup /\ [][NextGroup]_vars

InitClean ==
    pc = "desc_call" /\ logged = FALSE /\ CleanInit /\ DestIdle /\ ParseIdle
    /\ FillIdle /\ GridIdle
    /\ DescIdle
    /\ RegionIdle
    /\ AppendIdle
    /\ PathIdle

NextClean == CleanDesc

SpecClean == InitClean /\ [][NextClean]_vars

InitResolve ==
    pc = "asi_call" /\ logged = FALSE /\ ResolveInit /\ DestIdle /\ ParseIdle
    /\ FillIdle /\ GridIdle /\ TextIdle
    /\ RegionIdle
    /\ AppendIdle
    /\ PathIdle

NextResolve ==
    \/ ExtractAsiDesc
    \/ ExtractAsiDescFails
    \/ ExtractAsiDescAgain

SpecResolve == InitResolve /\ [][NextResolve]_vars

InitRegion ==
    pc = "region_call" /\ logged = FALSE /\ RegionInit /\ DestIdle /\ ParseIdle
    /\ FillIdle /\ GridIdle /\ TextIdle /\ DescIdle
    /\ AppendIdle
    /\ PathIdle

NextRegion ==
    \/ ExtractMarksByWords
    \/ ExtractWordsFails

SpecRegion == InitRegion /\ [][NextRegion]_vars

InitAppend ==
    pc = "append_calls" /\ logged = FALSE /\ AppendInit /\ DestIdle /\ ParseIdle
    /\ FillIdle /\ TextIdle /\ DescIdle /\ RegionIdle
    /\ PathIdle

NextAppend == FindOrAppendRowAgain

SpecAppend == InitAppend /\ [][NextAppend]_vars

InitPath ==
    pc = "fill_calls" /\ logged = FALSE /\ PathInit /\ DestIdle /\ ParseIdle
    /\ FillIdle /\ GridIdle /\ TextIdle /\ DescIdle /\ RegionIdle /\ AppendIdle

NextPath ==
    \/ Tick
    \/ BuildOutputPath
    \/ SaveOutput

SpecPath == InitPath /\ [][NextPath]_vars

InitRow ==
    pc = "row_call" /\ logged = FALSE /\ RowInit /\ DestIdle /\ ParseIdle /\ FillIdle
    /\ TextIdle
    /\ DescIdle
    /\ RegionIdle
    /\ AppendIdle
    /\ PathIdle

NextRow ==
    \/ FillExcelRow
    \/ ProcessNikeData

SpecRow == InitRow /\ [][NextRow]_vars

(***************************************************************************)
(* Properties.                                                             *)
(***************************************************************************)
\* some page text of the document holds the phrase
DocHasPhrase(doc, ph) ==
    \E p \in 1..Len(doc) : \E i \in 1..Len(doc[p].txt) : PhraseAt(doc[p].txt, i, ph)

\* C1: in parse_pl, once some page has set a field of the record to a
\* non-empty value, processing a later page never changes that value - for
\* every field, Invoice Number, Date and Marks included.
C1_FirstNonEmptyWins ==
    [][\A f \in PLFields :
         (pc = "parse_pages" /\ pc' = "parse_pages" /\ row[f] # <<>>)
            => row'[f] = row[f]]_vars

\* C2: when the document text holds both "Reference PO#: 1234567" and a
\* separate "PO: 7654321", in either order and on any pages, the record
\* returned by parse_pl has Reference PO# = 1234567 and PO = 7654321.
C2_ReferencePOPrecedence ==
    ( /\ pc = "parse_returned"
      /\ ~logged
      /\ DocHasPhrase(pdf, <<"Reference", "PO#:", "1234567">>)
      /\ DocHasPhrase(pdf, <<"PO:", "7654321">>) )
    => ( /\ row["Reference PO#"] = <<"1234567">>
         /\ row["PO"] = <<"7654321">> )

\* C3: when opening or reading the document fails at any point of parse_pl,
\* the call returns the default record, every field the empty string.
C3_FailureYieldsDefaultRecord ==
    (pc = "parse_returned" /\ logged) => row = DefaultRow

\* the fixed schema: the 13 packing-list fields plus DESCRIPTION and DEST
Schema == PLFields \cup {"DESCRIPTION", "DEST"}

\* C4: every record handed out by the extractor (parse_pl,
\* process_packing_list, get_invoice_data_dict), on success and on failure,
\* has every key of the fixed schema.
C4_EveryRecordHasTheSchemaKeys ==
    /\ pc = "parse_returned" => Schema \subseteq DOMAIN row
    /\ pc \in {"handed_out", "substitution_record"} => Schema \subseteq DOMAIN data

ExampleMarks ==
    <<"MARKS", "NIKE", "1234567", "Country", "Of", "Origin", ":", "Vietnam">>

\* the label "Country Of Origin" is followed by ": Vietnam"
OriginIsVietnam(m) ==
    \E i \in 1..Len(m) : PhraseAt(m, i, OriginLabel \o <<":", "Vietnam">>)

\* the words before the first "Country Of Origin"
WordsBeforeLabel(m) ==
    LET at == {i \in 1..Len(m) : PhraseAt(m, i, OriginLabel)}
    IN  SubSeq(m, 1, (CHOOSE i \in at : \A j \in at : i <= j) - 1)

\* C10 as stated: for every marks text in which "Country Of Origin" is
\* followed by ": Vietnam", dest_from_marks returns "Vietnam".
C10_OriginCountryIsReturned ==
    (pc = "dest_returned" /\ OriginIsVietnam(marks)) => dest = <<"Vietnam">>

\* C10 amended: for every marks text in which "Country Of Origin" is
\* followed by ": Vietnam", dest_from_marks returns what the text before the
\* label alone yields, whatever follows the label; for
\* "MARKS NIKE 1234567 Country Of Origin : Vietnam" that is the empty string.
C10_OriginCountryIsIgnored ==
    (pc = "dest_returned" /\ OriginIsVietnam(marks))
    => ( /\ dest = dest_from_marks(WordsBeforeLabel(marks))
         /\ marks = ExampleMarks => dest = <<>> )

C10_Witness ==
    /\ pc = "dest_returned"
    /\ marks = ExampleMarks
    /\ dest = <<>>

(***************************************************************************)
(* Properties of the template engine (SpecFill).                           *)
(***************************************************************************)
\* the closing delimiter nearest before position j, or 0
PrevClose(pat, text, j) ==
    LET before == {k \in 1..(j - 1) : text[k] = pat.close}
    IN  IF before = {} THEN 0 ELSE CHOOSE k \in before : \A l \in before : l <= k

\* the placeholder occurrences of a text, as <<first, last>> positions: an
\* occurrence ends at a closing delimiter and starts at the leftmost opening
\* delimiter after the previous closing one, with a name of at least one
\* character between them
Occurrences(pat, text) ==
    {o \in (1..Len(text)) \X (1..Len(text)) :
        /\ text[o[2]] = pat.close
        /\ text[o[1]] = pat.open
        /\ PrevClose(pat, text, o[2]) < o[1]
        /\ o[1] + 2 <= o[2]
        /\ \A k \in (PrevClose(pat, text, o[2]) + 1)..(o[1] - 1) : text[k] # pat.open}

\* the text in which every occurrence whose name is a key of the data map
\* is replaced by the key's value and everything else stays as written
RECURSIVE FilledFrom(_, _, _, _)
FilledFrom(pat, text, dmap, p) ==
    IF p > Len(text) THEN <<>>
    ELSE LET ends == {j \in 1..Len(text) : <<p, j>> \in Occurrences(pat, text)}
         IN  IF ends = {} THEN <<text[p]>> \o FilledFrom(pat, text, dmap, p + 1)
             ELSE LET j == CHOOSE e \in ends : TRUE
                      name == SubSeq(text, p + 1, j - 1)
                  IN  (IF name \in DOMAIN dmap THEN dmap[name] ELSE SubSeq(text, p, j))
                      \o FilledFrom(pat, text, dmap, j + 1)

FilledText(m, text, dmap) == FilledFrom(placeholders_pattern(m), text, dmap, 1)

\* a fill operation has returned and had loaded the template
Filled == pc \in {"filled", "rescanned"} /\ wb.sheetnames # <<>>

\* the sheets the fill operation called was to fill
TargetedSheets ==
    IF op.name = "create_filled_template" /\ mgr = "NikeTemplateManager"
    THEN IF op.sheet_name \in DOMAIN template.ws THEN {op.sheet_name}
         ELSE DOMAIN template.ws \ {"Data"}
    ELSE IF op.name = "create_filled_template" THEN DOMAIN template.ws
    ELSE {op.sheet_name} \cap DOMAIN template.ws

\* every text cell of the targeted sheets of `book` holds the filled text
AllCellsFilled(book) ==
    \A s \in TargetedSheets : \A i \in 1..Len(template.ws[s].cells) :
        IsText(template.ws[s].cells[i])
        => book.ws[s].cells[i].value =
               FilledText(mgr, template.ws[s].cells[i].value, data_dict)

\* C5: scanning a template, then filling it with
\* NikeTemplateManager.create_filled_template (no sheet named) and a data
\* map that has a value for every scanned name, then scanning the saved
\* output finds no placeholder.
C5_ScanFillRescanFindsNothing ==
    ( /\ pc = "rescanned"
      /\ mgr = "NikeTemplateManager"
      /\ op.name = "create_filled_template"
      /\ op.sheet_name = None
      /\ placeholders \subseteq DOMAIN data_dict )
    => remaining = {}

\* the sheets replace_placeholders_in_sheet has been run on
SheetsReplaced ==
    IF ~Filled THEN {}
    ELSE IF op.name = "replace_placeholders_in_sheet" THEN {op.sheet_name}
    ELSE IF op.name = "fill_template" /\ ret.ok THEN {op.sheet_name}
    ELSE IF op.name = "create_filled_template" /\ mgr = "TemplateManager"
    THEN DOMAIN template.ws
    ELSE {}

RescanIsUnmatchedSet ==
    \A s \in SheetsReplaced :
        ScanSheet(mgr, wb.ws[s]) = ScanSheet(mgr, template.ws[s]) \ DOMAIN data_dict

\* no value of the data map contains the opening delimiter
PlainValues ==
    \A k \in DOMAIN data_dict : \A i \in 1..Len(data_dict[k]) :
        data_dict[k][i] # placeholders_pattern(mgr).open

\* C6 as stated: for every sheet content and every data map whose values are
\* arbitrary strings, after replace_placeholders_in_sheet the names found by
\* rescanning the sheet are exactly the originally scanned names that are not
\* keys of the data map.
C6_RescanIsUnmatchedSetForAnyValues == RescanIsUnmatchedSet

\* C6 amended: for every sheet content and every data map whose values do
\* not contain the opening delimiter, after replace_placeholders_in_sheet the
\* names found by rescanning the sheet are exactly the originally scanned
\* names that are not keys of the data map.
C6_RescanIsUnmatchedSetForPlainValues == PlainValues => RescanIsUnmatchedSet

C6_Witness ==
    /\ pc = "filled"
    /\ op.name = "replace_placeholders_in_sheet"
    /\ PlainValues
    /\ data_dict # <<>>
    /\ ret.replacements > 0
    /\ \E k \in DOMAIN data_dict : data_dict[k] # <<>>
    /\ ScanSheet(mgr, template.ws[op.sheet_name]) # {}
    /\ ScanSheet(mgr, wb.ws[op.sheet_name]) = {}

\* C7: create_filled_template has only two outcomes: it reports success and
\* the saved workbook has every placeholder-bearing cell of every targeted
\* sheet processed, or it reports failure and no output file is written; it
\* never reports success after replacement stopped on an error.
C7_FillIsAllOrNothing ==
    (pc \in {"filled", "rescanned"} /\ op.name = "create_filled_template")
    => \/ ret.ok /\ output.exists /\ ~logged /\ AllCellsFilled(output.book)
       \/ ~ret.ok /\ ~output.exists

\* C8: for every cell whose text a fill changed, font, fill, border,
\* alignment and number format after the fill equal those before it; a cell
\* whose text the fill did not change keeps its value and its style.  It
\* holds of the workbook object and of the output file.
CellsKeepStyle(book) ==
    \A s \in DOMAIN book.ws : \A i \in 1..Len(book.ws[s].cells) :
        LET before == template.ws[s].cells[i]
            after == book.ws[s].cells[i]
        IN  /\ StyleOf(after) = StyleOf(before)
            /\ after.value = before.value => after = before

C8_StyleInvariance ==
    /\ Filled => CellsKeepStyle(wb)
    /\ output.exists => CellsKeepStyle(output.book)

C8_Witness ==
    /\ pc = "filled"
    /\ output.exists
    /\ \E s \in DOMAIN output.book.ws : \E i \in 1..Len(output.book.ws[s].cells) :
         /\ output.book.ws[s].cells[i].value # template.ws[s].cells[i].value
         /\ StyleOf(template.ws[s].cells[i]) = TitleStyle
         /\ StyleOf(output.book.ws[s].cells[i]) = TitleStyle

\* C9: during a fill every placeholder occurrence whose name is not a key of
\* the data map stays in the cell text as written, every occurrence whose
\* name is a key is replaced by the key's value, and the replacement never
\* raises.
C9_UnmatchedStayMatchedAreReplaced ==
    (Filled /\ (ret.ok \/ op.name = "create_filled_template"))
    => /\ AllCellsFilled(wb)
       /\ ret.ok => ~logged

(***************************************************************************)
(* Properties of the row-append workflow (SpecFind, SpecRow, SpecHeader).  *)
(***************************************************************************)
\* the cell holds nothing: None, or blanks only
Blank(v) == v = NoValue \/ \A i \in 1..Len(v) : v[i] = " "

\* the first row from the start row down whose invoice cell is blank, or 0
FirstBlankRow ==
    LET rows == {r \in start_row..Len(sheet) : Blank(sheet[r][1])}
    IN  IF rows = {} THEN 0 ELSE CHOOSE r \in rows : \A q \in rows : r <= q

\* the first row from the start row down that holds the invoice, when no
\* blank cell lies above it; else 0
ReuseRow ==
    LET rows == {r \in start_row..Len(sheet) :
                    /\ \A q \in start_row..r : ~Blank(sheet[q][1])
                    /\ inv_key(sheet[r][1]) = inv_key(invoice)}
    IN  IF rows = {} THEN 0 ELSE CHOOSE r \in rows : \A q \in rows : r <= q

\* the three cases of find_or_append_row, with `appended` the row returned
\* when neither a matching row nor a blank cell is met
FindOrAppendReturns(appended) ==
    (pc = "find_call" /\ pc' = "find_returned")
    => /\ ReuseRow # 0 => (target' = ReuseRow /\ sheet' = sheet)
       /\ (ReuseRow = 0 /\ FirstBlankRow # 0) => target' = FirstBlankRow
       /\ (ReuseRow = 0 /\ FirstBlankRow = 0) => target' = appended
       /\ (sheet = ExampleSheet /\ start_row = 8 /\ invoice = A123) => target' = 8

\* C11 as stated: a row holding the identifier met before any empty cell is
\* returned without writing; otherwise the first empty cell's row; otherwise
\* the row immediately after the sheet's last used row.  With row 8 = "A123"
\* and row 9 empty, appending "A123" returns 8.
C11_ReuseElseBlankElseAfterLastRow ==
    [][FindOrAppendReturns(Len(sheet) + 1)]_vars

\* C11 amended: as stated, except that when neither is met the row returned
\* is the one after the last used row only if the last used row is not
\* above the start row; when it is above, the start row itself is returned.
C11_ReuseElseBlankElseAppendFromStartRow ==
    [][FindOrAppendReturns(IF Len(sheet) >= start_row THEN Len(sheet) + 1
                           ELSE start_row)]_vars

C11_Witness ==
    /\ pc = "find_returned"
    /\ start_row = MaxRow + 2
    /\ target = start_row
    /\ Len(sheet) = start_row
    /\ sheet[target][1] = invoice
    /\ Blank(sheet[target - 1][1])

(***************************************************************************)
(* Properties of fill_excel_row.                                           *)
(***************************************************************************)
\* the fields fill_excel_row writes through setc
WrittenFields == {PLColumns[i][1] : i \in 1..Len(PLColumns)} \cup {"dest", "description"}

\* the value the call has for a written field
FieldValue(k) ==
    IF k = "dest"
    THEN (IF Truthy(dest_override) THEN dest_override ELSE Get(pl_row_dict, "DEST"))
    ELSE IF k = "description" THEN asi_desc
    ELSE Get(pl_row_dict,
             PLColumns[CHOOSE i \in 1..Len(PLColumns) : PLColumns[i][1] = k][2])

\* the rows other than the target row are the ones the sheet had
OtherRowsUnchanged ==
    \A r \in 1..Len(sheet') :
        r # target' => r <= Len(sheet) /\ sheet'[r] = sheet[r]

\* the cell of field k in the target row holds what it held
KeepsCell(k) ==
    CellValue(sheet', target', cols'[k]) = CellValue(sheet, target', cols'[k])

\* C12: a call of fill_excel_row changes no cell outside the target row,
\* and for every field whose value is empty or absent the cell of that
\* field in the target row holds after the call what it held before
C12_EmptyFieldsKeepTheirCell ==
    [][(pc = "row_call" /\ ret'.ok)
        => /\ OtherRowsUnchanged
           /\ \A k \in WrittenFields : ~Truthy(FieldValue(k)) => KeepsCell(k)]_vars

(***************************************************************************)
(* Properties of build_header_map_and_get_cols.                            *)
(***************************************************************************)
\* the fixed default column of every field
DefaultIndex ==
    [inv |-> 1, date |-> 2, po |-> 3, refpo |-> 4, itemseq |-> 5, material |-> 6,
     desc |-> 7, custship |-> 8, plant |-> 9, gross |-> 10, cartons |-> 11,
     units |-> 12, marks |-> 13, description |-> 14, dest |-> 15]

\* the columns of the header row whose text normalizes to key
ColumnsOf(key) ==
    {c \in 1..Width(sheet) :
        /\ HasHeaderText(CellValue(sheet, start_row - 1, c))
        /\ header_key(CellValue(sheet, start_row - 1, c)) = key}

AliasesOf(k) == {FieldOf(k).aliases[i] : i \in 1..Len(FieldOf(k).aliases)}

\* C13: for every header row the map returned has the 15 field keys, each
\* with an integer column >= 1, and a field none of whose aliases occurs in
\* the header row has its fixed default column
C13_AllFieldsHaveAColumn ==
    pc = "header_returned"
    => /\ DOMAIN cols = DOMAIN DefaultIndex
       /\ Cardinality(DOMAIN cols) = 15
       /\ \A k \in DOMAIN cols : cols[k] \in Nat /\ cols[k] >= 1
       /\ \A k \in DOMAIN cols :
            (\A a \in AliasesOf(k) : ColumnsOf(a) = {}) => cols[k] = DefaultIndex[k]

\* a header row without "Plant" has been mapped, and plant has column 9
C13_Witness ==
    /\ pc = "header_returned"
    /\ sheet = <<ExampleHeaderNoPlant>>
    /\ cols["plant"] = 9

\* the empty header row has been mapped
C13_WitnessEmptyHeader ==
    /\ pc = "header_returned"
    /\ \A c \in 1..Width(sheet) : sheet[1][c] = NoValue
    /\ cols = DefaultIndex

\* C14: when several header cells normalize to the same key, the header
\* map has that key at the column of the leftmost of them
C14_FirstOccurrenceWins ==
    pc = "header_returned"
    => \A key \in DOMAIN header :
          /\ ColumnsOf(key) # {}
          /\ header[key] = Min(ColumnsOf(key))

\* every alias is the normalized form of some header text
EveryAliasReachable ==
    \A k \in FieldKeys : \A a \in AliasesOf(k) :
        \E t \in HeaderTexts : HasHeaderText(t) /\ header_key(t) = a

\* C15: the column of a field is that of the first alias of its list
\* present in the header map, every alias of every list is the normalized
\* form of some header text, and a header row whose only PO-like cell is
\* "PO#" in column 3 resolves po to column 3
C15_FirstAliasWinsAndAllReachable ==
    pc = "header_returned"
    => /\ \A k \in FieldKeys : \A i \in 1..Len(FieldOf(k).aliases) :
            (/\ FieldOf(k).aliases[i] \in DOMAIN header
             /\ \A j \in 1..(i - 1) : FieldOf(k).aliases[j] \notin DOMAIN header)
            => cols[k] = header[FieldOf(k).aliases[i]]
       /\ EveryAliasReachable
       /\ (ColumnsOf(<<"po#">>) = {3} /\ ColumnsOf(<<"po">>) = {}) => cols["po"] = 3

(***************************************************************************)
(* Properties of the fills about the sheets they take.                     *)
(***************************************************************************)
\* a create_filled_template of either class has loaded a template that has
\* a sheet "Data"
FilledWithDataSheet ==
    /\ pc = "filled"
    /\ op.name = "create_filled_template"
    /\ op.template_path = TemplatePath
    /\ "Data" \in DOMAIN template.ws

\* the cells of the sheet "Data" of the workbook are those of the template
DataCellsUnchanged == wb.ws["Data"].cells = template.ws["Data"].cells

\* C16: a create_filled_template called without a sheet name changes no
\* cell of the sheet "Data", and the cells of "Data" are processed only
\* when the caller passes sheet_name = "Data"
C16_DataSheetOnlyWhenNamed ==
    FilledWithDataSheet
    => /\ op.sheet_name = None => DataCellsUnchanged
       /\ ~DataCellsUnchanged => op.sheet_name = "Data"

\* a fill was called with the name of a sheet the loaded template lacks
NamedSheetAbsent ==
    /\ pc = "filled"
    /\ op.name \in {"fill_template", "create_filled_template"}
    /\ op.template_path = TemplatePath
    /\ op.sheet_name # None
    /\ ~InSeq(op.sheet_name, template.sheetnames)

\* C17: an operation called with the name of a sheet that the workbook
\* lacks raises to its caller, fills no sheet and saves no output file
C17_AbsentSheetRaisesAndWritesNothing ==
    NamedSheetAbsent
    => /\ ret.raised
       /\ wb = template
       /\ ~output.exists

(***************************************************************************)
(* Properties of group_lines.                                              *)
(***************************************************************************)
\* how many times token t stands in the sequence s
Occurs(t, s) == Cardinality({i \in 1..Len(s) : s[i] = t})

\* C18: every token given to group_lines stands in exactly one line as
\* often as it was given, no line is empty, every token of a line has a
\* rounded top not above that of any token of a later line, the tokens of
\* a line are in order of left x, and no token gives no line
C18_LinesPartitionTokensInOrder ==
    pc = "lines_returned"
    => /\ \A t \in Tokens : Occurs(t, Flatten(lines)) = Occurs(t, words)
       /\ \A i \in 1..Len(lines) : lines[i] # <<>>
       /\ \A i, j \in 1..Len(lines) :
            i < j => \A a \in 1..Len(lines[i]), b \in 1..Len(lines[j]) :
                        Round(lines[i][a].top) <= Round(lines[j][b].top)
       /\ \A i \in 1..Len(lines) : \A a, b \in 1..Len(lines[i]) :
            a < b => lines[i][a].x0 <= lines[i][b].x0
       /\ words = <<>> => lines = <<>>

\* tokens given out of order came back as two lines, one of them holding
\* two tokens of different rounded tops
C18_Witness ==
    /\ pc = "lines_returned"
    /\ Len(lines) = 2
    /\ Len(words) = 3
    /\ Round(words[1].top) > Round(words[3].top)
    /\ \E i \in 1..2 : /\ Len(lines[i]) = 2
                       /\ Round(lines[i][1].top) # Round(lines[i][2].top)

(***************************************************************************)
(* Key set of the records handed out for substitution.                     *)
(***************************************************************************)
\* C19: the key set of a record handed out by process_packing_list or built
\* by get_invoice_data_dict is the 13 packing-list fields plus at most the
\* keys DESCRIPTION and DEST, and no other key
C19_KeysAreSchemaPlusInjected ==
    pc \in {"handed_out", "substitution_record"}
    => /\ PLFields \subseteq DOMAIN data
       /\ DOMAIN data \subseteq PLFields \cup {"DESCRIPTION", "DEST"}

(***************************************************************************)
(* Properties of _clean_desc.                                              *)
(***************************************************************************)
\* C20: a candidate whose cleaned text contains "SCULL CAP" is mapped to
\* "SKULL CAP", and a candidate whose cleaned text contains one of the
\* two-word phrases is never mapped to the shorter "CAP" inside it
C20_ScullCapBecomesSkullCap ==
    pc = "desc_returned"
    => /\ Contains(CleanText(candidate), SCULL_CAP) => cleaned = SKULL_CAP
       /\ (\/ Contains(CleanText(candidate), SCULL_CAP)
           \/ Contains(CleanText(candidate), SKULL_CAP)) => cleaned # CAP

(***************************************************************************)
(* Properties of the description resolver.                                 *)
(***************************************************************************)
\* C21: when the set of cleaned descriptions has "SKULL CAP" the resolver
\* returns it, else when it has "HAT" it returns "HAT", else when it has
\* "CAP" it returns "CAP", whatever else the set holds; for the empty set
\* it returns the empty string
C21_EarliestPriorityMemberWins ==
    pc = "asi_returned"
    => /\ SKULL_CAP \in descs => desc = SKULL_CAP
       /\ (SKULL_CAP \notin descs /\ HAT \in descs) => desc = HAT
       /\ (SKULL_CAP \notin descs /\ HAT \notin descs /\ CAP \in descs) => desc = CAP
       /\ descs = {} => desc = <<>>

\* a set with "HAT", "SKULL CAP" discovered after it and a description
\* outside the priority list has been resolved
C21_Witness ==
    /\ pc = "asi_returned"
    /\ Len(captures) = 3
    /\ captures[1] = HAT
    /\ captures[3] = SKULL_CAP
    /\ \E d \in descs : d \notin {SKULL_CAP, HAT, CAP}
    /\ desc = SKULL_CAP

\* C27: two runs that find the same set of cleaned descriptions return the
\* same description
C27_SameSetSameDescription ==
    pc = "asi_rerun" => desc_rerun = desc

(***************************************************************************)
(* Properties of dest_from_marks about the order of the country list.      *)
(***************************************************************************)
\* the marks text has the label "Country Of Origin"
HasLabel(m) == \E i \in 1..Len(m) : PhraseAt(m, i, OriginLabel)

\* the words after the first "Country Of Origin"
WordsAfterLabel(m) ==
    SubSeq(m, Len(WordsBeforeLabel(m)) + Len(OriginLabel) + 1, Len(m))

\* the places of COUNTRY_SIMPLE whose name stands in the text t
NamesIn(t) == {i \in 1..Len(COUNTRY_SIMPLE) : CountryIn(COUNTRY_SIMPLE[i], t)}

\* the name stands in t, as it is listed or in its spelling "Viet Nam"
NamedIn(name, t) == CountryIn(name, t) \/ CountryIn(name, ReplaceAliases(t))

\* C22: when the text before the label "Country Of Origin" holds country
\* names of COUNTRY_SIMPLE, dest_from_marks returns the one that is latest
\* in the list, whatever their order in the text; a name that stands only
\* after the label is not returned
C22_LatestListedNameBeforeLabel ==
    (pc = "dest_returned" /\ HasLabel(marks))
    => /\ NamesIn(WordsBeforeLabel(marks)) # {}
          => \A i \in NamesIn(WordsBeforeLabel(marks)) :
                \/ dest = COUNTRY_SIMPLE[i]
                \/ \E j \in NamesIn(WordsBeforeLabel(marks)) : j > i
       /\ \A i \in NamesIn(WordsAfterLabel(marks)) :
             ~NamedIn(COUNTRY_SIMPLE[i], WordsBeforeLabel(marks))
             => dest # COUNTRY_SIMPLE[i]

\* the text before the label names Vietnam and then Canada, the text after
\* it names Canada, and Vietnam, the later of the list, is returned
C22_Witness ==
    /\ pc = "dest_returned"
    /\ marks = <<"Vietnam", "Canada">> \o OriginLabel \o <<":", "Canada">>
    /\ dest = <<"Vietnam">>

\* a name standing only after the label was passed over
C22_WitnessOnlyAfterLabel ==
    /\ pc = "dest_returned"
    /\ marks = <<"MARKS", "Canada">> \o OriginLabel \o <<":", "Vietnam">>
    /\ dest = <<"Canada">>

(***************************************************************************)
(* Workbook handles of the template operations.                            *)
(***************************************************************************)
\* C23: when scan_template_placeholders, fill_template,
\* create_filled_template or process_nike_data has returned or raised, the
\* workbook it opened is closed, on the success path and on every error
\* path
C23_HandleClosedOnEveryExit ==
    pc \in {"scanned", "filled", "rescanned", "row_returned"} => handle # "open"

\* the workbook is closed whenever the operation succeeded
C23_HandleClosedOnSuccess ==
    (pc \in {"filled", "rescanned", "row_returned"} /\ ret.ok
        /\ op.name \in {"fill_template", "create_filled_template",
                        "process_nike_data"})
    => handle = "closed"

(***************************************************************************)
(* The PO candidate lists of parse_pl.                                     *)
(***************************************************************************)
RECURSIVE RefCandidates(_, _)
\* the Reference-PO matches of the first n pages, page after page
RefCandidates(doc, n) ==
    IF n = 0 THEN <<>> ELSE RefCandidates(doc, n - 1) \o RE_REFPO(doc[n].txt)

RECURSIVE POCandidates(_, _)
\* the generic-PO matches of the first n pages, page after page, those of
\* the page text before those of the page's marks
POCandidates(doc, n) ==
    IF n = 0 THEN <<>>
    ELSE POCandidates(doc, n - 1) \o RE_PO_ANY(doc[n].txt) \o RE_PO_ANY(doc[n].mk)

\* C24: the Reference-PO and the generic-PO candidates are accumulated in
\* discovery order, pages in document order and page text before marks
\* text; when parse_pl has read every page, Reference PO# is the first
\* Reference-PO candidate if there is one, else the first generic-PO
\* candidate, and PO is the first generic-PO candidate; a field whose
\* candidates are missing stays empty
C24_FirstCandidatesInDiscoveryOrder ==
    /\ refpo_hits = RefCandidates(pdf, pageNo)
    /\ po_hits = POCandidates(pdf, pageNo)
    /\ (pc = "parse_returned" /\ ~logged)
       => /\ pageNo = Len(pdf)
          /\ row["Reference PO#"] =
                IF refpo_hits # <<>> THEN <<refpo_hits[1]>>
                ELSE IF po_hits # <<>> THEN <<po_hits[1]>> ELSE <<>>
          /\ row["PO"] = IF po_hits # <<>> THEN <<po_hits[1]>> ELSE <<>>

\* a document of two pages: page 1 has a PO in its text and another in its
\* marks, page 2 has a Reference PO#
C24_Witness ==
    /\ pc = "parse_returned"
    /\ ~logged
    /\ Len(pdf) = 2
    /\ pdf[1] = [txt |-> <<"PO:", "7654321">>,
                 mk |-> <<"NIKE", "PO:", "7777777", "Canada">>]
    /\ pdf[2].txt = <<"Reference", "PO#:", "1234567">>
    /\ po_hits = <<"7654321", "7777777", "1234567">>
    /\ refpo_hits = <<"1234567">>
    /\ row["PO"] = <<"7654321">>
    /\ row["Reference PO#"] = <<"1234567">>

\* a document without any PO: both fields stay empty
C24_WitnessNoCandidates ==
    /\ pc = "parse_returned"
    /\ ~logged
    /\ Len(pdf) = 2
    /\ refpo_hits = <<>> /\ po_hits = <<>>
    /\ row["PO"] = <<>> /\ row["Reference PO#"] = <<>>

(***************************************************************************)
(* Properties of the region locator.                                       *)
(***************************************************************************)
\* the lines among the five before line a that hold MARKS or NOCAB
MarksLinesBefore(a) ==
    {k \in 0..(a - 1) : k >= a - 5 /\ HasMarksWord(right_texts[k + 1])}

\* the window runs from the nearest MARKS/NOCAB line among the five before
\* the anchor line, else from three lines before it, to the line after it,
\* and so holds the anchor line and its text
WindowAroundAnchor ==
    LET a == r_coo_idx
        last == Len(right_texts) - 1
    IN  /\ r_start = IF MarksLinesBefore(a) # {} THEN Max(MarksLinesBefore(a))
                     ELSE IF a - 3 > 0 THEN a - 3 ELSE 0
        /\ r_end = IF a + 1 < last THEN a + 1 ELSE last
        /\ r_start <= a /\ a <= r_end
        /\ Contains(picked, right_texts[a + 1])

\* C25: whenever the anchor line is found at index a of the right-column
\* lines, a = 0 and a = the last index included, the window starts at the
\* nearest of the five lines before a that holds MARKS or NOCAB, else at
\* max(0, a - 3), and ends at min(a + 1, last index); so start <= a <= end
\* and the text of the anchor line is part of the window
C25_WindowHoldsAnchorLine ==
    (pc = "region_returned" /\ r_coo_idx # NoIndex) => WindowAroundAnchor

\* the same for an anchor line that is not the first right-column line
C25_WindowHoldsLaterAnchorLine ==
    (pc = "region_returned" /\ r_coo_idx # NoIndex /\ r_coo_idx # 0)
    => WindowAroundAnchor

\* the same for a first line that is the anchor when none of the last five
\* lines holds MARKS or NOCAB
C25_WindowHoldsFirstAnchorLine ==
    ( /\ pc = "region_returned"
      /\ r_coo_idx = 0
      /\ \A k \in 0..(Len(right_texts) - 1) :
            k > Len(right_texts) - 6 => ~HasMarksWord(right_texts[k + 1]) )
    => WindowAroundAnchor

\* the anchor line is the sixth line and the window starts at a MARKS line
\* five lines before it
C25_WitnessLaterAnchor ==
    /\ pc = "region_returned"
    /\ r_coo_idx = 5
    /\ r_start = 0
    /\ r_end = 6

\* positions of the window text where the anchor pattern with its value
\* matches, and where a code-like substring starts
OriginMatches == {i \in 1..Len(picked) : OriginValueEnd(picked, i) # 0}
CodeMatches ==
    {i \in 1..Len(picked) :
        /\ IsCodeStart(picked[i])
        /\ \A j \in (i + 1)..(i + 5) : j <= Len(picked) /\ IsCodeChar(picked[j])}

\* C26: the locator returns the prefix of the normalized window text that
\* ends with the first match of "Country Of Origin : <words>" if there is
\* one; else the first code-like substring, a letter or digit followed by
\* at least five letters, digits, dashes, slashes, hashes or blanks, if
\* there is one; else the whole normalized window text; and the empty
\* text when the page has no words or no word in the right column
C26_ResultByPriority ==
    /\ pc = "region_failed" => region = <<>>
    /\ (pc = "region_returned" /\ (page_words = <<>> \/ right_texts = <<>>))
       => region = <<>>
    /\ (pc = "region_returned" /\ page_words # <<>> /\ right_texts # <<>>)
       => /\ OriginMatches # {}
             => region = norm_chars(SubSeq(picked, 1,
                            OriginValueEnd(picked, Min(OriginMatches)) - 1))
          /\ (OriginMatches = {} /\ CodeMatches # {})
             => region = norm_chars(SubSeq(picked, Min(CodeMatches),
                            RunEnd(picked, Min(CodeMatches) + 1, IsCodeChar) - 1))
          /\ (OriginMatches = {} /\ CodeMatches = {}) => region = picked

\* the window holds the anchor with its value and a code after it: the
\* result is the prefix up to the end of the value's letters
C26_Witness ==
    /\ pc = "region_returned"
    /\ page_words = PageOf(<<"anchor", "code">>)
    /\ picked = linetxt(LineWords("anchor", 0)) \o <<" ">> \o Chars_Code
    /\ region = linetxt(LineWords("anchor", 0)) \o <<" ", "N", "K">>

\* no anchor with a value: the code-like substring is returned
C26_WitnessCode ==
    /\ pc = "region_returned"
    /\ page_words = PageOf(<<"dots", "code">>)
    /\ region = Chars_Code
    /\ region # picked

\* neither pattern: the window text is returned
C26_WitnessWhole ==
    /\ pc = "region_returned"
    /\ page_words = PageOf(<<"dots", "short">>)
    /\ region = picked
    /\ region = <<".", ".", " ", "A", "B">>

\* words, but none in the right column: the empty text is returned
C26_WitnessNoRightColumn ==
    /\ pc = "region_returned"
    /\ page_words = PageOf(<<"left">>)
    /\ region = <<>>

(***************************************************************************)
(* The column map as a one-to-one map.                                     *)
(***************************************************************************)
\* no two fields of the column map share a column
OneColumnPerField ==
    \A f \in DOMAIN cols : \A g \in DOMAIN cols : cols[f] = cols[g] => f = g

\* C29: for every header row, the column map returned by
\* build_header_map_and_get_cols gives different fields different columns
C29_ColumnMapInjective ==
    pc = "header_returned" => OneColumnPerField

\* the same for a header row none of whose cells is found by an alias, and
\* for the header row of the example
C29_DefaultsInjective ==
    (pc = "header_returned"
        /\ (header = <<>> \/ \A f \in DOMAIN cols : cols[f] = DefaultIndex[f]))
    => OneColumnPerField

(***************************************************************************)
(* Properties of repeated find_or_append_row calls.                        *)
(***************************************************************************)
\* C28: on a sheet whose invoice column, from the start row down, has no
\* empty cell above a filled one and no two rows with the same normalized
\* identifier, after any sequence of find_or_append_row calls with
\* identifiers that are not blank: no two rows hold the same normalized
\* identifier, identifiers that differ after normalization have different
\* rows, and a repeated call returns the row the identifier was first given
C28_OneRowPerIdentifier ==
    pc = "append_calls"
    => /\ NoDuplicates(sheet, start_row)
       /\ Dense(sheet, start_row)
       /\ \A k \in DOMAIN given :
             /\ given[k] \in FilledRows(sheet, start_row)
             /\ inv_key(sheet[given[k]][1]) = k
             /\ \A j \in DOMAIN given : given[j] = given[k] => j = k
       /\ calls > 0 => target = given[inv_key(invoice)]

\* three calls: an identifier, another one, and the first one again in
\* another spelling, which returns the row of the first call
C28_Witness ==
    /\ pc = "append_calls"
    /\ calls = 3
    /\ invoice = <<"a", "1", " ">>
    /\ DOMAIN given = {<<"A", "1">>, <<"B">>}
    /\ target = given[<<"A", "1">>]
    /\ given[<<"B">>] = target + 1

(***************************************************************************)
(* Properties of the output paths.                                         *)
(***************************************************************************)
\* C30: two fill_template invocations on the same template and sheet, one
\* after the other or interleaved, write to different output paths, so
\* that no saved workbook is overwritten by another invocation
C30_DifferentOutputPaths ==
    /\ \A i \in DOMAIN call_pc : \A j \in DOMAIN call_pc :
          (i # j /\ call_pc[i] # "start" /\ call_pc[j] # "start")
          => call_path[i] # call_path[j]
    /\ \A m \in DOMAIN saves : \A n \in DOMAIN saves :
          saves[m].path = saves[n].path => m = n

\* both invocations have returned and one file is left, holding what the
\* later one filled in
C30_Overwritten ==
    /\ Len(saves) = 2
    /\ saves[1].path = saves[2].path
    /\ call_data[saves[1].by] # call_data[saves[2].by]
    /\ files[saves[1].path] = call_data[saves[2].by]

====
